---- MODULE Spec2Model ----
(***************************************************************************)
(* ot-br-posix: DSO transport (src/dso), mDNS publisher (src/mdns) and     *)
(* SRPL DNS-SD controller (src/srpl_dnssd) as state machines.              *)
(*                                                                         *)
(* The specifications of the module:                                       *)
(*   SpecDso     - DsoAgent receiving frames over non-blocking sockets     *)
(*   SpecDsoTx   - DsoAgent sending                                        *)
(*   SpecDsoHost - the connection life cycle without payload               *)
(*   SpecPub     - Publisher registrations, both backends                  *)
(*   SpecSrpl    - SrplDnssd on top of the publisher                       *)
(***************************************************************************)
EXTENDS Integers, Sequences, FiniteSets, TLC

(***************************************************************************)
(* Bounds of the model.                                                    *)
(***************************************************************************)
\* number of otPlatDsoConnection handles the DNS host owns
NumHandles == 2
\* sizeof(mBuffer) is 2048 in the source; the model scales the receive
\* buffer down, every formula is stated relative to kBufferSize
kBufferSize == 4
\* longest DNS message a peer frames (longer than the buffer on purpose)
MaxMsgLen == 3
\* frames a peer writes in total, over all sockets
MaxFrames == 2
\* highest file descriptor the kernel hands out; 0..2 are the standard streams
MaxFd == 4
\* connect calls the DNS host makes in total
MaxConnects == 2
\* transport faults (peer FIN, peer RST, failing connect) injected in total
MaxFaults == 1
\* sizeof(buf) of Send is 1600 in the source; scaled like the receive buffer
kSendBufSize == 4
\* longest message the DNS host sends (longer than kSendBufSize - 2 on purpose)
MaxSendLen == 3
\* send calls the DNS host makes in total
MaxSends == 2
\* calls the consumers of the publisher make in total
MaxCalls == 2
\* calls the SRP Replication engine makes into the SRPL DNS-SD platform in total
MaxSrplCalls == 3
\* discovery events handed on to the SRP Replication engine in total
MaxResults == 1
\* otPlatDsoEnableListening calls the DNS host makes in total
MaxListenCalls == 2
\* connections the peers open to the listening socket in total
MaxIncoming == 2

Handles == 1..NumHandles
SockFds == 3..MaxFd
Byte == 0..255

VARIABLES
    mMap,            \* DsoAgent::mMap: handle -> DsoConnection, or NoConn when the key is absent
    socks,           \* kernel: fd -> TCP socket (open, bytes readable, FIN / RST seen)
    procQueue,       \* ProcessOutgoingConnections: the snapshot entries not yet processed
    hostLog,         \* DNS host: upcalls observed per handle
    peerSent,        \* per fd: the messages the peer has framed into the socket
    framesLeft,      \* frames the peers may still write
    connectsLeft,    \* connects the DNS host may still make
    faultsLeft,      \* transport faults that may still be injected
    sendsLeft,       \* sends the DNS host may still make
    mListeningEnabled,  \* DsoAgent::mListeningEnabled
    mListeningFd,    \* DsoAgent::mListeningCtx.fd
    listeners,       \* kernel: the descriptors that are sockets in the listening state
    backlog,         \* kernel: connections established on the listening socket, not yet accepted
    acceptCalls,     \* DNS host: otPlatDsoAccept upcalls observed
    missedDisconnect,  \* DNS host: some otPlatDsoDisconnect named a handle the map did not hold
    listenCalls,     \* DNS host: the aEnabled arguments of its otPlatDsoEnableListening calls, in order
    incomingLeft     \* connections the peers may still open to the listening socket

listenVars == <<mListeningEnabled, mListeningFd, listeners, backlog, acceptCalls, listenCalls, incomingLeft>>

agentVars == <<listenVars, missedDisconnect>>

dsoVars == <<mMap, socks, procQueue, hostLog, peerSent, framesLeft, connectsLeft, faultsLeft, sendsLeft,
             agentVars>>

(***************************************************************************)
(* State of the mDNS publisher and of the SRPL DNS-SD controller.          *)
(***************************************************************************)
VARIABLES
    backend,                \* which Publisher is built: "mdnssd" or "avahi"
    mState,                 \* Publisher::State: "kIdle" or "kReady"
    mClient,                \* PublisherAvahi::mClient is not nullptr
    mHostsRef,              \* PublisherMDnsSd::mHostsRef is not nullptr
    mServiceRegistrations,  \* std::map: full service name -> ServiceRegistrationPtr
    mHostRegistrations,     \* std::map: full host name -> HostRegistrationPtr
    cbLog,                  \* the ResultCallback invocations made so far, in order
    registerCalls,          \* register requests handed to the backend so far
    crashed,                \* the process was terminated (null dereference, bad_function_call)
    callsMade,              \* calls made so far that supply a callback or a subscription
    mServiceInstanceName,   \* SrplDnssd::mServiceInstanceName
    mSubscriberId,          \* SrplDnssd::mSubscriberId
    mSubscribedServices,    \* the publisher's list of service subscriptions, in order
    mDiscoveredCallbacks,   \* the ids of the subscription callbacks installed in the publisher
    browseResults,          \* otPlatSrplHandleDnssdBrowseResult upcalls made so far, in order
    dnssdName               \* the instance name the backend chose for the SRPL service, <<>> before

pubVars == <<backend, mState, mClient, mHostsRef, mServiceRegistrations, mHostRegistrations,
             cbLog, registerCalls, crashed, callsMade,
             mServiceInstanceName, mSubscriberId, mSubscribedServices, mDiscoveredCallbacks,
             browseResults, dnssdName>>

vars == <<dsoVars, pubVars>>

----------------------------------------------------------------------------
(* Values *)

NullMessage == [null |-> TRUE, data |-> <<>>]

NewMessage == [null |-> FALSE, data |-> <<>>]

\* a value-initialised mbedtls_net_context ({}): fd = 0
kCtxZeroFd == 0

\* mbedtls_net_close / mbedtls_net_free leave fd = -1
kCtxClosedFd == 0 - 1

ClosedSock == [open |-> FALSE, rx |-> <<>>, tx |-> <<>>, fin |-> FALSE, rst |-> FALSE]

FreshSock == [open |-> TRUE, rx |-> <<>>, tx |-> <<>>, fin |-> FALSE, rst |-> FALSE]

NoConn == [present |-> FALSE]

\* DsoConnection(aConnection, aCtx): member initialisers of the class
NewDsoConnection(ctxFd) ==
    [present          |-> TRUE,
     mConnected       |-> FALSE,
     fd               |-> ctxFd,
     mPendingMessage  |-> NullMessage,
     mWantMessageSize |-> 0,
     mBufferBegin     |-> 0,
     mBufferEnd       |-> 0,
     mBuffer          |-> [i \in 0..(kBufferSize - 1) |-> 0]]

Min(a, b) == IF a < b THEN a ELSE b

\* htons on a little-endian host: swap the two bytes of a uint16_t
htons(x) == (x % 256) * 256 + (x \div 256)

\* ntohs is the same byte swap
ntohs(x) == (x % 256) * 256 + (x \div 256)

\* *(uint16_t *)(p) on a little-endian host
LoadU16(b0, b1) == b0 + 256 * b1

\* memcpy(buf, &size, 2) on a little-endian host
StoreU16(x) == <<x % 256, x \div 256>>

\* the frame a peer writes for one message: 2-byte big-endian length, payload
Frame(m) == <<Len(m) \div 256, Len(m) % 256>> \o m

IsPrefix(s, t) == Len(s) <= Len(t) /\ s = SubSeq(t, 1, Len(s))

----------------------------------------------------------------------------
(* DsoAgent::DsoConnection *)

BufAvail(c) == c.mBufferEnd - c.mBufferBegin

\* the wire length parsed at mBuffer + mBufferBegin
WireLength(c) == ntohs(LoadU16(c.mBuffer[c.mBufferBegin], c.mBuffer[c.mBufferBegin + 1]))

\* otMessageAppend(mPendingMessage, mBuffer + mBufferBegin, readLen)
MessageAppend(c, readLen) ==
    [null |-> FALSE,
     data |-> c.mPendingMessage.data \o [i \in 1..readLen |-> c.mBuffer[c.mBufferBegin + i - 1]]]

\* Disconnect(aMode): both modes close the fd with mbedtls_net_close, then
\* mConnected = false and mCtx = {}.  No upcall is made.
Disconnect(c) == [c EXCEPT !.mConnected = FALSE, !.fd = kCtxZeroFd]

\* a Disconnect that reports to the DNS host, as the header-only DsoConnection does
DisconnectNotify_Upcall(log, h) == [log EXCEPT ![h].disconnected = @ + 1]

\* Disconnect(aMode): the upcalls it makes.  otPlatDsoHandleDisconnected is
\* commented out, so the DNS host's log is left as it is.
DisconnectNotify(log, h) == log

\* the fd Disconnect hands to close(): mbedtls_net_close skips fd == -1
DisconnectCloses(c) == IF c.fd = kCtxClosedFd THEN {} ELSE {c.fd}

\* The while (true) loop of HandleReceive, from the state after mBufferEnd += ret.
\* Result: the connection afterwards, the messages handed to
\* otPlatDsoHandleReceive in order, and whether a zero length made it Disconnect.
RECURSIVE DrainBuffer(_, _)
DrainBuffer(c, out) ==
    LET parse == c.mPendingMessage.null
        c1 == IF parse
              THEN [c EXCEPT !.mWantMessageSize = WireLength(c),
                             !.mBufferBegin = c.mBufferBegin + 2,
                             !.mPendingMessage = NewMessage]
              ELSE c
        readLen == Min(c1.mWantMessageSize - Len(c1.mPendingMessage.data), BufAvail(c1))
        c2 == [c1 EXCEPT !.mPendingMessage = MessageAppend(c1, readLen),
                         !.mBufferBegin = c1.mBufferBegin + readLen]
        complete == Len(c2.mPendingMessage.data) = c2.mWantMessageSize
        c3 == IF complete
              THEN [c2 EXCEPT !.mPendingMessage = NullMessage, !.mWantMessageSize = 0]
              ELSE c2
        out3 == IF complete THEN Append(out, c2.mPendingMessage.data) ELSE out
    IN  IF parse /\ BufAvail(c) < 2
        THEN [conn |-> c, msgs |-> out, zero |-> FALSE]
        ELSE IF parse /\ WireLength(c) = 0
        THEN [conn |-> Disconnect([c EXCEPT !.mWantMessageSize = 0]), msgs |-> out, zero |-> TRUE]
        ELSE IF c3.mBufferBegin = c3.mBufferEnd
        THEN [conn |-> [c3 EXCEPT !.mBufferBegin = 0, !.mBufferEnd = 0], msgs |-> out3, zero |-> FALSE]
        ELSE DrainBuffer(c3, out3)

\* the length handed to mbedtls_net_recv
RecvSpace(c) == kBufferSize - c.mBufferEnd

\* what mbedtls_net_recv(&mCtx, mBuffer + mBufferEnd, len) can return on the
\* non-blocking socket: n > 0 bytes "data" (any split of what is readable),
\* 0 at end of stream "eof", 0 because len is 0 "nospace",
\* MBEDTLS_ERR_SSL_WANT_READ "wantread", or another negative value "error"
RecvResults(c, sk) ==
    LET s == IF c.fd \in SockFds THEN sk[c.fd] ELSE ClosedSock
    IN  IF ~s.open \/ s.rst THEN {[kind |-> "error", n |-> 0]}
        ELSE IF RecvSpace(c) = 0 THEN {[kind |-> "nospace", n |-> 0]}
        ELSE IF s.rx # <<>>
        THEN {[kind |-> "data", n |-> k] : k \in 1..Min(RecvSpace(c), Len(s.rx))}
        ELSE IF s.fin THEN {[kind |-> "eof", n |-> 0]}
        ELSE {[kind |-> "wantread", n |-> 0]}

\* mBuffer after ret bytes were stored at mBuffer + mBufferEnd; mBufferEnd += ret
StoreRecv(c, bytes) ==
    [c EXCEPT !.mBuffer = [i \in 0..(kBufferSize - 1) |->
                              IF i >= c.mBufferEnd /\ i < c.mBufferEnd + Len(bytes)
                              THEN bytes[i - c.mBufferEnd + 1] ELSE c.mBuffer[i]],
              !.mBufferEnd = c.mBufferEnd + Len(bytes)]

\* HandleReceive for one recv result r read from a socket whose readable bytes are rx
HandleReceive(c, r, rx) ==
    IF ~c.mConnected \/ r.kind # "data"
    THEN [conn |-> c, msgs |-> <<>>, zero |-> FALSE]
    ELSE DrainBuffer(StoreRecv(c, SubSeq(rx, 1, r.n)), <<>>)

----------------------------------------------------------------------------
(* Kernel sockets and the peer.  Peer steps are taken between process       *)
(* loops: a write that arrives during a loop commutes with the steps on    *)
(* the other connections, so it is the same as one that arrived before or  *)
(* after the loop.                                                         *)

FreeFds(sk) == {f \in SockFds : ~sk[f].open}

\* socket(): the lowest unused descriptor
LowestFreeFd(sk) == CHOOSE f \in FreeFds(sk) : \A g \in FreeFds(sk) : f <= g

\* close(fd) for each fd in fds; descriptors that are not sockets of the model are ignored
CloseFds(sk, fds) == [f \in SockFds |-> IF f \in fds THEN ClosedSock ELSE sk[f]]

\* some DsoConnection of the map holds f in mCtx.fd
Referenced(f) == \E h \in Handles : mMap[h].present /\ mMap[h].fd = f

\* the messages a peer may frame: one of every length 0..MaxMsgLen (0 is the
\* illegal zero-length frame); payload byte i is i - 1, so that the bytes of a
\* message differ from each other and include 0
PeerMessages == {[i \in 1..l |-> (i - 1) % 256] : l \in 0..MaxMsgLen}

\* the peer writes one frame into an established connection
PeerSendFrame(f, m) ==
    /\ ~crashed
    /\ framesLeft > 0
    /\ procQueue = <<>>
    /\ Referenced(f)
    /\ socks[f].open /\ ~socks[f].fin /\ ~socks[f].rst
    /\ socks' = [socks EXCEPT ![f].rx = @ \o Frame(m)]
    /\ peerSent' = [peerSent EXCEPT ![f] = Append(@, m)]
    /\ framesLeft' = framesLeft - 1
    /\ UNCHANGED <<mMap, procQueue, hostLog, connectsLeft, faultsLeft, sendsLeft>>
    /\ UNCHANGED agentVars
    /\ UNCHANGED pubVars

\* the peer closes its side: the local read returns 0 once rx is drained
PeerClose(f) ==
    /\ ~crashed
    /\ faultsLeft > 0
    /\ procQueue = <<>>
    /\ Referenced(f)
    /\ socks[f].open /\ ~socks[f].fin /\ ~socks[f].rst
    /\ socks' = [socks EXCEPT ![f].fin = TRUE]
    /\ faultsLeft' = faultsLeft - 1
    /\ UNCHANGED <<mMap, procQueue, hostLog, peerSent, framesLeft, connectsLeft, sendsLeft>>
    /\ UNCHANGED agentVars
    /\ UNCHANGED pubVars

\* the peer writes only the first k bytes of a frame and closes
PeerCloseMidFrame(f, m, k) ==
    /\ ~crashed
    /\ faultsLeft > 0
    /\ framesLeft > 0
    /\ procQueue = <<>>
    /\ Referenced(f)
    /\ socks[f].open /\ ~socks[f].fin /\ ~socks[f].rst
    /\ Len(m) >= 1 /\ k \in 1..(Len(Frame(m)) - 1)
    /\ socks' = [socks EXCEPT ![f].rx = @ \o SubSeq(Frame(m), 1, k), ![f].fin = TRUE]
    /\ faultsLeft' = faultsLeft - 1
    /\ framesLeft' = framesLeft - 1
    /\ UNCHANGED <<mMap, procQueue, hostLog, peerSent, connectsLeft, sendsLeft>>
    /\ UNCHANGED agentVars
    /\ UNCHANGED pubVars

\* the peer resets the connection: reads and writes fail with ECONNRESET
PeerReset(f) ==
    /\ ~crashed
    /\ faultsLeft > 0
    /\ procQueue = <<>>
    /\ Referenced(f)
    /\ socks[f].open /\ ~socks[f].rst
    /\ socks' = [socks EXCEPT ![f].rst = TRUE, ![f].rx = <<>>]
    /\ faultsLeft' = faultsLeft - 1
    /\ UNCHANGED <<mMap, procQueue, hostLog, peerSent, framesLeft, connectsLeft, sendsLeft>>
    /\ UNCHANGED agentVars
    /\ UNCHANGED pubVars

----------------------------------------------------------------------------
(* DsoAgent and the platform API *)

\* a Find that falls back to some entry of the map when the key is absent
Find_First(map, h) == IF map[h].present \/ (\A k \in Handles : ~map[k].present) THEN map[h] ELSE map[CHOOSE k \in Handles : map[k].present]

\* DsoAgent::Find
Find(map, h) == map[h]

\* DsoAgent::FindOrCreate(aConnection): a new DsoConnection gets aCtx = {}
FindOrCreate(map, h) == IF map[h].present THEN map[h] ELSE NewDsoConnection(kCtxZeroFd)

\* DsoAgent::Remove
Remove(map, h) == [map EXCEPT ![h] = NoConn]

\* the outcomes of mbedtls_net_connect followed by mbedtls_net_set_nonblock
ConnectOutcomes(sk) ==
    IF FreeFds(sk) = {} THEN {"socket_failed"} ELSE {"ok", "connect_failed", "nonblock_failed"}

\* DsoConnection::Connect: mCtx.fd after mbedtls_net_connect
ConnectFd(c, sk, outcome) ==
    IF outcome = "socket_failed" THEN kCtxClosedFd ELSE LowestFreeFd(sk)

\* DsoConnection::Connect: the connection afterwards
Connect(c, sk, outcome) ==
    [c EXCEPT !.fd = ConnectFd(c, sk, outcome),
              !.mConnected = IF outcome = "ok" THEN TRUE ELSE c.mConnected]

\* otPlatDsoHandleConnected(h) as the DNS host records it
HostConnected(log, h) == [log EXCEPT ![h].connected = @ + 1, ![h].received = <<>>]

\* otPlatDsoHandleReceive(h, m) for each m of msgs, in order
HostReceive(log, h, msgs) == [log EXCEPT ![h].received = @ \o msgs]

\* otPlatDsoConnect(aConnection, aPeerSockAddr)
otPlatDsoConnect(h, outcome) ==
    /\ ~crashed
    /\ procQueue = <<>>
    /\ connectsLeft > 0
    /\ outcome \in ConnectOutcomes(socks)
    /\ outcome # "ok" => faultsLeft > 0
    /\ faultsLeft' = IF outcome = "ok" THEN faultsLeft ELSE faultsLeft - 1
    /\ LET c == FindOrCreate(mMap, h)
           opens == outcome \in {"ok", "nonblock_failed"}
       IN  /\ mMap' = [mMap EXCEPT ![h] = Connect(c, socks, outcome)]
           /\ socks' = IF opens THEN [socks EXCEPT ![LowestFreeFd(socks)] = FreshSock] ELSE socks
           /\ peerSent' = IF opens THEN [peerSent EXCEPT ![LowestFreeFd(socks)] = <<>>] ELSE peerSent
           /\ hostLog' = IF outcome = "ok" THEN HostConnected(hostLog, h) ELSE hostLog
    /\ connectsLeft' = connectsLeft - 1
    /\ UNCHANGED <<procQueue, framesLeft, sendsLeft>>
    /\ UNCHANGED agentVars
    /\ UNCHANGED pubVars

\* otPlatDsoDisconnect(aConnection, aMode): Find, Disconnect, Remove
otPlatDsoDisconnect(h, mode) ==
    /\ ~crashed
    /\ procQueue = <<>>
    /\ mode \in {"forcibly_abort", "gracefully_close"}
    /\ LET c == Find(mMap, h)
       IN  IF c.present
           THEN /\ socks' = CloseFds(socks, DisconnectCloses(c))
                /\ mMap' = Remove([mMap EXCEPT ![h] = Disconnect(c)], h)
                /\ hostLog' = DisconnectNotify(hostLog, h)
           ELSE UNCHANGED <<socks, mMap, hostLog>>
    /\ missedDisconnect' = (missedDisconnect \/ ~Find(mMap, h).present)
    /\ UNCHANGED <<procQueue, peerSent, framesLeft, connectsLeft, faultsLeft, sendsLeft>>
    /\ UNCHANGED listenVars
    /\ UNCHANGED pubVars

\* the messages the DNS host sends: one of every length 1..MaxSendLen
HostMessages == {[i \in 1..l |-> (i - 1) % 256] : l \in 1..MaxSendLen}

\* otMessageRead(aMessage, 0, buf + 2, sizeof(buf) - 2): the bytes copied
MessageRead(m) == SubSeq(m, 1, Min(Len(m), kSendBufSize - 2))

\* DsoConnection::Send: the buffer handed to mbedtls_net_send, len bytes of buf
SendBuffer(m) == StoreU16(htons(Len(m) % 65536)) \o MessageRead(m)

\* what mbedtls_net_send(&mCtx, buf, len) can return: len or fewer bytes
\* written, MBEDTLS_ERR_SSL_WANT_WRITE (0 written), or another negative error
SendResults(c, sk, len) ==
    LET s == IF c.fd \in SockFds THEN sk[c.fd] ELSE ClosedSock
    IN  IF ~s.open \/ s.rst THEN {[kind |-> "error", n |-> 0]}
        ELSE {[kind |-> "written", n |-> k] : k \in 1..len} \cup {[kind |-> "wantwrite", n |-> 0]}

\* otPlatDsoSend(aConnection, aMessage): Find, Send; the connection is not changed
otPlatDsoSend(h, m) ==
    /\ ~crashed
    /\ procQueue = <<>>
    /\ sendsLeft > 0
    /\ LET c == Find(mMap, h)
       IN  IF c.present
           THEN \E r \in SendResults(c, socks, Len(SendBuffer(m))) :
                   socks' = IF r.kind = "written"
                            THEN [socks EXCEPT ![c.fd].tx = @ \o SubSeq(SendBuffer(m), 1, r.n)]
                            ELSE socks
           ELSE UNCHANGED socks
    /\ sendsLeft' = sendsLeft - 1
    /\ UNCHANGED <<mMap, procQueue, hostLog, peerSent, framesLeft, connectsLeft, faultsLeft>>
    /\ UNCHANGED agentVars
    /\ UNCHANGED pubVars

\* ProcessOutgoingConnections: the snapshot of mMap taken before the loop
Snapshot(map) ==
    LET RECURSIVE Collect(_)
        Collect(h) == IF h > NumHandles THEN <<>>
                      ELSE (IF map[h].present THEN <<h>> ELSE <<>>) \o Collect(h + 1)
    IN  Collect(1)

\* platformDsoProcess: ProcessOutgoingConnections takes its snapshot
ProcessBegin ==
    /\ ~crashed
    /\ procQueue = <<>>
    /\ Snapshot(mMap) # <<>>
    /\ procQueue' = Snapshot(mMap)
    /\ UNCHANGED <<mMap, socks, hostLog, peerSent, framesLeft, connectsLeft, faultsLeft, sendsLeft>>
    /\ UNCHANGED agentVars
    /\ UNCHANGED pubVars

\* ProcessOutgoingConnections: conn->HandleReceive() on the next snapshot entry
ProcessStep ==
    /\ ~crashed
    /\ procQueue # <<>>
    /\ mMap[Head(procQueue)].present
    /\ LET h == Head(procQueue)
           c == mMap[h]
       IN  \E r \in (IF c.mConnected THEN RecvResults(c, socks) ELSE {[kind |-> "none", n |-> 0]}) :
             LET rx == IF c.fd \in SockFds THEN socks[c.fd].rx ELSE <<>>
                 res == HandleReceive(c, r, rx)
                 sk1 == IF r.kind = "data"
                        THEN [socks EXCEPT ![c.fd].rx = SubSeq(rx, r.n + 1, Len(rx))]
                        ELSE socks
             IN  /\ mMap' = [mMap EXCEPT ![h] = res.conn]
                 /\ socks' = IF res.zero THEN CloseFds(sk1, DisconnectCloses(c)) ELSE sk1
                 /\ hostLog' = IF res.zero
                               THEN DisconnectNotify(HostReceive(hostLog, h, res.msgs), h)
                               ELSE HostReceive(hostLog, h, res.msgs)
    /\ procQueue' = Tail(procQueue)
    /\ UNCHANGED <<peerSent, framesLeft, connectsLeft, faultsLeft, sendsLeft>>
    /\ UNCHANGED agentVars
    /\ UNCHANGED pubVars

\* every variable of the publisher but crashed, which the agent shares with it:
\* both live in the one otbr-agent process
pubVarsKept == <<backend, mState, mClient, mHostsRef, mServiceRegistrations, mHostRegistrations,
                 cbLog, registerCalls, callsMade, mServiceInstanceName, mSubscriberId,
                 mSubscribedServices, mDiscoveredCallbacks,
                 browseResults, dnssdName>>

\* OT_IP6_ADDRESS_SIZE of openthread/ip6.h
OT_IP6_ADDRESS_SIZE == 16

\* the peers that connect to the AF_INET6 listening socket: an IPv6 peer, an
\* IPv4 peer that the dual-stack socket presents with an IPv4-mapped IPv6
\* address (::ffff:a.b.c.d), and a peer whose address has family AF_INET
PeerKinds == {"ip6", "ip4mapped", "ip4"}

\* mbedtls_net_accept: the length it reports for the peer's address, 4 for
\* family AF_INET and 16 otherwise
AddrLen(kind) == IF kind = "ip4" THEN 4 ELSE 16

\* a peer's connect to the listening socket completes: the kernel queues it
PeerConnectIn(kind) ==
    /\ ~crashed
    /\ procQueue = <<>>
    /\ incomingLeft > 0
    /\ mListeningEnabled
    /\ kind \in PeerKinds
    /\ backlog' = Append(backlog, kind)
    /\ incomingLeft' = incomingLeft - 1
    /\ UNCHANGED <<mMap, socks, procQueue, hostLog, peerSent, framesLeft, connectsLeft, faultsLeft, sendsLeft>>
    /\ UNCHANGED <<mListeningEnabled, mListeningFd, listeners, acceptCalls, listenCalls, missedDisconnect>>
    /\ UNCHANGED pubVars

\* Enable: VerifyOrExit(!mListeningEnabled), whether the call goes on to make a socket
EnableOpens_Always(enabled) == TRUE

EnableOpens(enabled) == ~enabled

\* Enable: the outcomes of socket, setsockopt, bind and listen
EnableOutcomes(sk) == IF FreeFds(sk) = {} THEN {"socket_failed"} ELSE {"ok", "setup_failed"}

\* DsoAgent::Enable.  A failing setsockopt, bind or listen ends in std::abort().
Enable(outcome) ==
    IF EnableOpens(mListeningEnabled)
    THEN /\ outcome \in EnableOutcomes(socks)
         /\ outcome # "ok" => faultsLeft > 0
         /\ faultsLeft' = IF outcome = "ok" THEN faultsLeft ELSE faultsLeft - 1
         /\ mListeningFd' = IF outcome = "socket_failed" THEN kCtxClosedFd ELSE LowestFreeFd(socks)
         /\ socks' = IF outcome = "socket_failed" THEN socks
                     ELSE [socks EXCEPT ![LowestFreeFd(socks)] = FreshSock]
         /\ listeners' = IF outcome = "ok" THEN listeners \cup {LowestFreeFd(socks)} ELSE listeners
         /\ mListeningEnabled' = IF outcome = "ok" THEN TRUE ELSE mListeningEnabled
         /\ crashed' = (outcome # "ok")
         /\ UNCHANGED <<mMap, backlog>>
    ELSE /\ outcome = "ok"
         /\ UNCHANGED <<mListeningFd, socks, listeners, mListeningEnabled, crashed, mMap, backlog, faultsLeft>>

\* ~DsoConnection: the descriptors the destruction of c closes (mbedtls_net_free)
DestructorCloses(c) == IF c.present /\ c.fd # kCtxClosedFd THEN {c.fd} ELSE {}

\* DsoAgent::Disable: mbedtls_net_close(&mListeningCtx), mMap.clear()
Disable ==
    IF mListeningEnabled
    THEN /\ socks' = CloseFds(socks, {mListeningFd} \cup UNION {DestructorCloses(mMap[h]) : h \in Handles})
         /\ listeners' = listeners \ {mListeningFd}
         /\ mListeningFd' = kCtxClosedFd
         /\ mMap' = [h \in Handles |-> NoConn]
         /\ mListeningEnabled' = FALSE
         /\ backlog' = <<>>
         /\ UNCHANGED <<crashed, faultsLeft>>
    ELSE UNCHANGED <<mListeningFd, socks, listeners, mListeningEnabled, crashed, mMap, backlog, faultsLeft>>

\* DsoAgent::SetEnabled
SetEnabled(aEnabled, outcome) == IF aEnabled THEN Enable(outcome) ELSE (outcome = "ok" /\ Disable)

\* otPlatDsoEnableListening(aInstance, aEnabled)
otPlatDsoEnableListening(aEnabled, outcome) ==
    /\ ~crashed
    /\ procQueue = <<>>
    /\ Len(listenCalls) < MaxListenCalls
    /\ listenCalls' = Append(listenCalls, aEnabled)
    /\ SetEnabled(aEnabled, outcome)
    /\ UNCHANGED <<procQueue, hostLog, peerSent, framesLeft, connectsLeft, sendsLeft>>
    /\ UNCHANGED <<acceptCalls, incomingLeft, missedDisconnect>>
    /\ UNCHANGED pubVarsKept

\* what otPlatDsoAccept returns: null (0) or a handle the DNS host has not in use
AcceptReturns(map) == {0} \cup {h \in Handles : ~map[h].present}

\* mbedtls_net_accept followed by mbedtls_net_set_nonblock on the accepted context
AcceptOutcomes == {"ok", "nonblock_failed"}

\* ProcessIncomingConnections: whether the iteration reaches otPlatDsoAccept
AcceptUpcalls(outcome, len) == outcome = "ok" /\ len = OT_IP6_ADDRESS_SIZE

\* ProcessIncomingConnections: one iteration of the while loop that accepts a
\* connection.  (WANT_READ and accept errors leave the loop with no change.)
ProcessIncomingConnections(outcome, h) ==
    /\ ~crashed
    /\ procQueue = <<>>
    /\ mListeningEnabled
    /\ backlog # <<>>
    /\ FreeFds(socks) # {}
    /\ outcome \in AcceptOutcomes
    /\ outcome # "ok" => faultsLeft > 0
    /\ faultsLeft' = IF outcome = "ok" THEN faultsLeft ELSE faultsLeft - 1
    /\ LET fd == LowestFreeFd(socks)
       IN  /\ socks' = [socks EXCEPT ![fd] = FreshSock]
           /\ peerSent' = [peerSent EXCEPT ![fd] = <<>>]
           /\ backlog' = Tail(backlog)
           /\ IF AcceptUpcalls(outcome, AddrLen(Head(backlog)))
              THEN /\ h \in AcceptReturns(mMap)
                   /\ acceptCalls' = acceptCalls + 1
                   /\ IF h # 0
                      THEN /\ mMap' = [mMap EXCEPT ![h] = [NewDsoConnection(fd) EXCEPT !.mConnected = TRUE]]
                           /\ hostLog' = HostConnected(hostLog, h)
                      ELSE UNCHANGED <<mMap, hostLog>>
              ELSE /\ h = 0
                   /\ UNCHANGED <<mMap, hostLog, acceptCalls>>
    /\ UNCHANGED <<procQueue, framesLeft, connectsLeft, sendsLeft>>
    /\ UNCHANGED <<mListeningEnabled, mListeningFd, listeners, listenCalls, incomingLeft, missedDisconnect>>
    /\ UNCHANGED pubVars

\* what a use of a destroyed DsoConnection can do (undefined behaviour): the
\* freed memory still holds the object as Disconnect left it ("stale"), or the
\* access ends the process ("fault")
UseAfterFreeOutcomes == {"stale", "fault"}

\* ProcessOutgoingConnections: conn->HandleReceive() on the next snapshot entry,
\* where the DNS host calls otPlatDsoDisconnect(v, mode) from inside the
\* otPlatDsoHandleReceive upcall.  Disconnect and Remove run at once and the
\* unique_ptr destroys v's DsoConnection; HandleReceive then goes on: it writes
\* mPendingMessage and mWantMessageSize and continues its loop.
ProcessStepDisconnecting(v, mode, uaf) ==
    /\ ~crashed
    /\ procQueue # <<>>
    /\ mMap[Head(procQueue)].present
    /\ mMap[v].present
    /\ mode \in {"forcibly_abort", "gracefully_close"}
    /\ uaf \in UseAfterFreeOutcomes
    /\ LET h == Head(procQueue)
           c == mMap[h]
       IN  \E r \in (IF c.mConnected THEN RecvResults(c, socks) ELSE {[kind |-> "none", n |-> 0]}) :
             LET rx == IF c.fd \in SockFds THEN socks[c.fd].rx ELSE <<>>
                 res == HandleReceive(c, r, rx)
                 sk1 == IF r.kind = "data"
                        THEN [socks EXCEPT ![c.fd].rx = SubSeq(rx, r.n + 1, Len(rx))]
                        ELSE socks
                 sk2 == IF res.zero THEN CloseFds(sk1, DisconnectCloses(c)) ELSE sk1
             IN  /\ res.msgs # <<>>
                 /\ socks' = CloseFds(sk2, DisconnectCloses(mMap[v]))
                 /\ IF v = h
                    THEN /\ mMap' = Remove(mMap, h)
                         /\ hostLog' = DisconnectNotify(
                                IF uaf = "stale" THEN HostReceive(hostLog, h, res.msgs)
                                ELSE HostReceive(hostLog, h, <<Head(res.msgs)>>), h)
                         /\ crashed' = (uaf = "fault")
                    ELSE /\ uaf = "stale"
                         /\ mMap' = Remove([mMap EXCEPT ![h] = res.conn], v)
                         /\ hostLog' = DisconnectNotify(HostReceive(hostLog, h, res.msgs), v)
                         /\ crashed' = crashed
    /\ procQueue' = Tail(procQueue)
    /\ UNCHANGED <<peerSent, framesLeft, connectsLeft, faultsLeft, sendsLeft>>
    /\ UNCHANGED agentVars
    /\ UNCHANGED pubVarsKept

\* ProcessOutgoingConnections: conn->HandleReceive() on a snapshot entry whose
\* DsoConnection was destroyed after the snapshot was taken.  The pointer
\* dangles: the stale object reads mConnected == false and returns, or the
\* access ends the process.
ProcessStepDestroyed(uaf) ==
    /\ ~crashed
    /\ procQueue # <<>>
    /\ ~mMap[Head(procQueue)].present
    /\ uaf \in UseAfterFreeOutcomes
    /\ procQueue' = Tail(procQueue)
    /\ crashed' = (uaf = "fault")
    /\ UNCHANGED <<mMap, socks, hostLog, peerSent, framesLeft, connectsLeft, faultsLeft, sendsLeft>>
    /\ UNCHANGED agentVars
    /\ UNCHANGED pubVarsKept

----------------------------------------------------------------------------
(* Publisher: the part shared by both backends (mdns.cpp).  Strings are    *)
(* sequences of character codes; a ResultCallback is the sequence of the   *)
(* closures it will run, <<>> being the null callback.                     *)

\* SrplDnssd::kPort
kPort == 853
\* SrplDnssd::kServiceType, "_srpl-tls._tcp"
kServiceType == <<95, 115, 114, 112, 108, 45, 116, 108, 115, 46, 95, 116, 99, 112>>
\* sizeof(address.data.ipv6.address), OTBR_IP6_ADDRESS_SIZE
OTBR_IP6_ADDRESS_SIZE == 16
\* Publisher::kMaxTextEntrySize
kMaxTextEntrySize == 255
\* PublisherAvahi::kMaxSizeOfTxtRecord
kMaxSizeOfTxtRecord == 1024
\* sizeof(AvahiStringList): a pointer, a size_t and text[1], padded
kSizeofAvahiStringList == 24

\* std::string operator<
RECURSIVE StrLess(_, _)
StrLess(s, t) ==
    IF t = <<>> THEN FALSE
    ELSE IF s = <<>> THEN TRUE
    ELSE IF Head(s) # Head(t) THEN Head(s) < Head(t)
    ELSE StrLess(Tail(s), Tail(t))

\* std::sort under a strict order, here by insertion of each element before
\* the first element it is less than: the sorted aSubTypeList
RECURSIVE SortSubTypeList(_)
SortSubTypeList(aSubTypeList) ==
    IF aSubTypeList = <<>> THEN <<>>
    ELSE LET rest == SortSubTypeList(Tail(aSubTypeList))
             x == Head(aSubTypeList)
             k == Cardinality({i \in 1..Len(rest) : \A j \in 1..i : ~StrLess(x, rest[j])})
         IN  SubSeq(rest, 1, k) \o <<x>> \o SubSeq(rest, k + 1, Len(rest))

\* Publisher::SortTxtList: std::sort by entry name only
RECURSIVE SortTxtList(_)
SortTxtList(aTxtList) ==
    IF aTxtList = <<>> THEN <<>>
    ELSE LET rest == SortTxtList(Tail(aTxtList))
             x == Head(aTxtList)
             k == Cardinality({i \in 1..Len(rest) : \A j \in 1..i : ~StrLess(x.mName, rest[j].mName)})
         IN  SubSeq(rest, 1, k) \o <<x>> \o SubSeq(rest, k + 1, Len(rest))

\* Publisher::EncodeTxtData: the error it returns
EncodeTxtData(aTxtList) ==
    IF \A i \in 1..Len(aTxtList) :
          Len(aTxtList[i].mName) + 1 + Len(aTxtList[i].mValue) <= kMaxTextEntrySize
    THEN "OTBR_ERROR_NONE" ELSE "OTBR_ERROR_INVALID_ARGS"

\* Publisher::EncodeTxtData: the bytes it puts into aTxtData, entry after entry
\* in the order of aTxtList: a length byte, the name, '=' and the value
RECURSIVE EncodedTxtData(_)
EncodedTxtData(aTxtList) ==
    IF aTxtList = <<>> THEN <<>>
    ELSE LET name == Head(aTxtList).mName
             value == Head(aTxtList).mValue
             entryLength == Len(name) + 1 + Len(value)
         IN  <<entryLength % 256>> \o name \o <<61>> \o value \o EncodedTxtData(Tail(aTxtList))

\* Publisher::MakeFullServiceName: aName + "." + aType + ".local"
MakeFullServiceName(aName, aType) == aName \o <<46>> \o aType \o <<46, 108, 111, 99, 97, 108>>

\* Publisher::MakeFullHostName: aName + ".local"
MakeFullHostName(aName) == aName \o <<46, 108, 111, 99, 97, 108>>

\* Publisher::IsServiceTypeEqual: a trailing dot is ignored
IsServiceTypeEqual(aFirstType, aSecondType) ==
    LET Strip(t) == IF t # <<>> /\ t[Len(t)] = 46 THEN SubSeq(t, 1, Len(t) - 1) ELSE t
    IN  Strip(aFirstType) = Strip(aSecondType)

\* a null ServiceRegistrationPtr / HostRegistrationPtr
NullPtr == [null |-> TRUE]

\* std::make_shared<DnssdServiceRegistration>(..., serviceRef) and
\* std::make_shared<AvahiServiceRegistration>(..., group): mTxtData is the TXT
\* record the daemon was given with the service of that handle
NewServiceRegistration(aHostName, aName, aType, aSubTypeList, aPort, aTxtList, aCallback, aTxtData) ==
    [null |-> FALSE, mHostName |-> aHostName, mName |-> aName, mType |-> aType,
     mSubTypeList |-> aSubTypeList, mPort |-> aPort, mTxtList |-> aTxtList, mCallback |-> aCallback,
     mTxtData |-> aTxtData]

\* std::make_shared<HostRegistration>(...)
NewHostRegistration(aName, aAddress, aCallback) ==
    [null |-> FALSE, mName |-> aName, mAddress |-> aAddress, mCallback |-> aCallback]

\* std::map::operator[]: a key that is missing is inserted with a null pointer
MapIndex(map, key) == IF key \in DOMAIN map THEN map ELSE [k \in DOMAIN map \cup {key} |->
                                                              IF k = key THEN NullPtr ELSE map[k]]

\* std::map::erase(key)
MapErase(map, key) == [k \in DOMAIN map \ {key} |-> map[k]]

\* std::map: map[key] = value
MapAssign(map, key, value) == [k \in DOMAIN map \cup {key} |-> IF k = key THEN value ELSE map[k]]

\* std::map::clear()
EmptyMap == [k \in {} |-> NullPtr]

\* OnceCallback::IsNull
IsNull(aCallback) == aCallback = <<>>

\* Registration::IsCompleted
IsCompleted(reg) == IsNull(reg.mCallback)

\* Publisher::FindServiceRegistrationByType: the completed registration of the type, if any
FindServiceRegistrationByType(map, aType) ==
    LET found == {k \in DOMAIN map : /\ ~map[k].null
                                      /\ IsServiceTypeEqual(map[k].mType, aType)
                                      /\ IsCompleted(map[k])}
    IN  IF found = {} THEN NullPtr ELSE map[CHOOSE k \in found : TRUE]

\* the id of the callback the next call supplies
NextId == callsMade + 1

\* The state a callback can read and write: the publisher p and the
\* controller.  One closure c runs with aError; c.id numbers the call it was
\* supplied with and c.kind tells what it is:
\*   "PublishService", "UnpublishService", "PublishHost", "UnpublishHost"
\*                     the callback another consumer supplied with that call
\*   "srpl_register"   the lambda of SrplDnssd::RegisterService
\*   "srpl_unregister" the lambda of SrplDnssd::UnregisterService
\*   "PublishSrplService" the lambda of PublishSrplService of srp_replication.cpp:
\*                     told OTBR_ERROR_DUPLICATED it calls UnpublishSrplService
\*                     for the name c.unpublish it was published under and
\*                     PublishSrplService again, under the name
\*                     GenerateServiceInstanceName gives (that of c.republish)
\*   "UnpublishSrplService" the lambda of UnpublishSrplService
\* The log entry tells whether the closure ran inside the call that supplied it.
LogEntry(c, aError) == [id |-> c.id, kind |-> c.kind, error |-> aError, inCall |-> c.id = NextId]
RECURSIVE PublisherPublishService(_, _, _, _)
RECURSIVE PublisherUnpublishService(_, _, _, _)
RunClosure(c, aError, p) ==
    LET logged == [p EXCEPT !.cbLog = Append(@, LogEntry(c, aError))]
        reg == FindServiceRegistrationByType(p.mServiceRegistrations, kServiceType)
    IN  IF c.kind = "srpl_register" /\ aError = "OTBR_ERROR_NONE"
        THEN IF reg.null THEN [logged EXCEPT !.crashed = TRUE]
             ELSE [logged EXCEPT !.mServiceInstanceName = reg.mName]
        ELSE IF c.kind = "srpl_unregister"
        THEN [logged EXCEPT !.mServiceInstanceName = <<>>]
        ELSE IF c.kind = "PublishSrplService" /\ aError = "OTBR_ERROR_DUPLICATED"
        THEN PublisherPublishService(
                 c.republish, <<[c EXCEPT !.unpublish = c.republish.aName]>>, c.o,
                 PublisherUnpublishService(c.unpublish, c.republish.aType,
                                           <<[id |-> c.id, kind |-> "UnpublishSrplService"]>>, logged))
        ELSE logged

\* OnceCallback::operator() &&: the callback was moved out by the caller; its
\* closures run in order.  Invoking a null callback throws bad_function_call.
RECURSIVE Invoke(_, _, _)
Invoke(aCallback, aError, p) ==
    IF p.crashed THEN p
    ELSE IF aCallback = <<>> THEN p
    ELSE Invoke(Tail(aCallback), aError, RunClosure(Head(aCallback), aError, p))

InvokeOnce(aCallback, aError, p) ==
    IF IsNull(aCallback) THEN [p EXCEPT !.crashed = TRUE] ELSE Invoke(aCallback, aError, p)

\* Registration::~Registration: a callback that is still there is aborted
DestroyRegistration(reg, p) ==
    IF reg.null \/ IsNull(reg.mCallback) THEN p
    ELSE Invoke(reg.mCallback, "OTBR_ERROR_ABORTED", p)

\* the registrations of a map are destroyed in key order by clear()
RECURSIVE DestroyAll(_, _)
DestroyAll(regs, p) ==
    IF regs = <<>> THEN p ELSE DestroyAll(Tail(regs), DestroyRegistration(Head(regs), p))

\* the values of a map in key order
RECURSIVE MapValues(_)
MapValues(map) ==
    IF DOMAIN map = {} THEN <<>>
    ELSE LET k == CHOOSE x \in DOMAIN map : \A y \in DOMAIN map : x = y \/ StrLess(x, y)
         IN  <<map[k]>> \o MapValues(MapErase(map, k))

\* Registration::Complete: the callback runs unless the registration is completed
Complete(key, aError, p, services) ==
    LET map == IF services THEN p.mServiceRegistrations ELSE p.mHostRegistrations
        reg == map[key]
        cleared == [reg EXCEPT !.mCallback = <<>>]
        p1 == IF services THEN [p EXCEPT !.mServiceRegistrations[key] = cleared]
                          ELSE [p EXCEPT !.mHostRegistrations[key] = cleared]
    IN  IF IsCompleted(reg) THEN p ELSE Invoke(reg.mCallback, aError, p1)

\* a removal that leaves the map as it is
RemoveServiceRegistration_Keep(aName, aType, p) == p

\* Publisher::RemoveServiceRegistration: erase by key; the registration it
\* held is destroyed
RemoveServiceRegistration(aName, aType, p) ==
    LET key == MakeFullServiceName(aName, aType)
    IN  IF key \in DOMAIN p.mServiceRegistrations
        THEN DestroyRegistration(p.mServiceRegistrations[key],
                 [p EXCEPT !.mServiceRegistrations = MapErase(@, key)])
        ELSE p

\* Publisher::RemoveHostRegistration
RemoveHostRegistration(aName, p) ==
    LET key == MakeFullHostName(aName)
    IN  IF key \in DOMAIN p.mHostRegistrations
        THEN DestroyRegistration(p.mHostRegistrations[key],
                 [p EXCEPT !.mHostRegistrations = MapErase(@, key)])
        ELSE p

\* a comparison that leaves the port out
ServiceIsOutdated_IgnorePort(reg, aHostName, aName, aType, aSubTypeList, aPort, aTxtList) ==
    ~(/\ reg.mHostName = aHostName /\ reg.mName = aName /\ reg.mType = aType
      /\ reg.mSubTypeList = aSubTypeList /\ reg.mTxtList = aTxtList)

\* ServiceRegistration::IsOutdated
ServiceIsOutdated(reg, aHostName, aName, aType, aSubTypeList, aPort, aTxtList) ==
    ~(/\ reg.mHostName = aHostName /\ reg.mName = aName /\ reg.mType = aType
      /\ reg.mSubTypeList = aSubTypeList /\ reg.mPort = aPort /\ reg.mTxtList = aTxtList)

\* HostRegistration::IsOutdated
HostIsOutdated(reg, aName, aAddress) == ~(reg.mName = aName /\ reg.mAddress = aAddress)

\* the orders in which std::map::clear() may destroy the registrations of a map
DestroyOrders(map) ==
    {order \in [1..Cardinality(DOMAIN map) -> DOMAIN map] :
        \A i, j \in 1..Cardinality(DOMAIN map) : order[i] = order[j] => i = j}

\* the std::bind of HandleDuplicate*Registration with the two callbacks reversed
ChainCallbacks_NewFirst(aExistingCallback, aNewCallback) == aNewCallback \o aExistingCallback

\* the std::bind of HandleDuplicate*Registration: the callback that runs the
\* existing callback and then the new one with the same error
ChainCallbacks(aExistingCallback, aNewCallback) == aExistingCallback \o aNewCallback

\* a duplicate handler that sends an identical request to the backend again
\* although the registration is completed
HandleDuplicateServiceRegistration_Reregister(aHostName, aName, aType, aSubTypeList, aPort, aTxtList, aCallback, p) ==
    LET key == MakeFullServiceName(aName, aType)
        p0 == [p EXCEPT !.mServiceRegistrations = MapIndex(@, key)]
        serviceReg == p0.mServiceRegistrations[key]
    IN  IF serviceReg.null
        THEN [p |-> p0, ret |-> aCallback]
        ELSE IF ServiceIsOutdated(serviceReg, aHostName, aName, aType, aSubTypeList, aPort, aTxtList)
        THEN [p |-> RemoveServiceRegistration(aName, aType, p0), ret |-> aCallback]
        ELSE IF IsCompleted(serviceReg)
        THEN [p |-> p0, ret |-> aCallback]
        ELSE [p |-> [p0 EXCEPT !.mServiceRegistrations[key].mCallback = ChainCallbacks(@, aCallback)],
              ret |-> <<>>]

\* Publisher::HandleDuplicateServiceRegistration: the publisher afterwards and
\* the callback it returns (null when the request was absorbed).  The
\* registration erased from the map is destroyed when the function returns.
HandleDuplicateServiceRegistration(aHostName, aName, aType, aSubTypeList, aPort, aTxtList, aCallback, p) ==
    LET key == MakeFullServiceName(aName, aType)
        p0 == [p EXCEPT !.mServiceRegistrations = MapIndex(@, key)]
        serviceReg == p0.mServiceRegistrations[key]
    IN  IF serviceReg.null
        THEN [p |-> p0, ret |-> aCallback]
        ELSE IF ServiceIsOutdated(serviceReg, aHostName, aName, aType, aSubTypeList, aPort, aTxtList)
        THEN [p |-> RemoveServiceRegistration(aName, aType, p0), ret |-> aCallback]
        ELSE IF IsCompleted(serviceReg)
        THEN [p |-> Invoke(aCallback, "OTBR_ERROR_NONE", p0), ret |-> <<>>]
        ELSE [p |-> [p0 EXCEPT !.mServiceRegistrations[key].mCallback = ChainCallbacks(@, aCallback)],
              ret |-> <<>>]

\* Publisher::HandleDuplicateHostRegistration
HandleDuplicateHostRegistration(aName, aAddress, aCallback, p) ==
    LET key == MakeFullHostName(aName)
        p0 == [p EXCEPT !.mHostRegistrations = MapIndex(@, key)]
        hostReg == p0.mHostRegistrations[key]
    IN  IF hostReg.null
        THEN [p |-> p0, ret |-> aCallback]
        ELSE IF HostIsOutdated(hostReg, aName, aAddress)
        THEN [p |-> RemoveHostRegistration(hostReg.mName, p0), ret |-> aCallback]
        ELSE IF IsCompleted(hostReg)
        THEN [p |-> Invoke(aCallback, "OTBR_ERROR_NONE", p0), ret |-> <<>>]
        ELSE [p |-> [p0 EXCEPT !.mHostRegistrations[key].mCallback = ChainCallbacks(@, aCallback)],
              ret |-> <<>>]

\* Publisher::AddServiceRegistration
AddServiceRegistration(aServiceReg, p) ==
    LET key == MakeFullServiceName(aServiceReg.mName, aServiceReg.mType)
        old == IF key \in DOMAIN p.mServiceRegistrations THEN p.mServiceRegistrations[key] ELSE NullPtr
    IN  DestroyRegistration(old, [p EXCEPT !.mServiceRegistrations = MapAssign(@, key, aServiceReg)])

\* Publisher::AddHostRegistration
AddHostRegistration(aHostReg, p) ==
    LET key == MakeFullHostName(aHostReg.mName)
        old == IF key \in DOMAIN p.mHostRegistrations THEN p.mHostRegistrations[key] ELSE NullPtr
    IN  DestroyRegistration(old, [p EXCEPT !.mHostRegistrations = MapAssign(@, key, aHostReg)])

\* Publisher::FindHostRegistration(aName) as PublishService uses it: the map
\* after operator[] and whether the pointer found is null
FindHostRegistration(aName, p) == [p EXCEPT !.mHostRegistrations = MapIndex(@, MakeFullHostName(aName))]

----------------------------------------------------------------------------
(* PublisherMDnsSd (mdns_mdnssd.cpp) *)

\* DNSErrorToOtbrError; a value that is no DNSServiceErrorType falls to default
DNSErrorToOtbrError(aError) ==
    CASE aError = "kDNSServiceErr_NoError" -> "OTBR_ERROR_NONE"
      [] aError \in {"kDNSServiceErr_NoSuchKey", "kDNSServiceErr_NoSuchName",
                     "kDNSServiceErr_NoSuchRecord"} -> "OTBR_ERROR_NOT_FOUND"
      [] aError \in {"kDNSServiceErr_Invalid", "kDNSServiceErr_BadParam", "kDNSServiceErr_BadFlags",
                     "kDNSServiceErr_BadInterfaceIndex"} -> "OTBR_ERROR_INVALID_ARGS"
      [] aError \in {"kDNSServiceErr_AlreadyRegistered", "kDNSServiceErr_NameConflict"}
            -> "OTBR_ERROR_DUPLICATED"
      [] aError = "kDNSServiceErr_Unsupported" -> "OTBR_ERROR_NOT_IMPLEMENTED"
      [] OTHER -> "OTBR_ERROR_MDNS"

\* PublisherMDnsSd::Start
MdnssdStart(p) == [p EXCEPT !.mState = "kReady"]

\* PublisherMDnsSd::Stop: nothing unless mState is kReady; mState is left as it is
MdnssdStop(p, serviceOrder, hostOrder) ==
    IF p.mState # "kReady" THEN p
    ELSE LET services == [i \in DOMAIN serviceOrder |-> p.mServiceRegistrations[serviceOrder[i]]]
             hosts == [i \in DOMAIN hostOrder |-> p.mHostRegistrations[hostOrder[i]]]
             p1 == DestroyAll(services, [p EXCEPT !.mServiceRegistrations = EmptyMap])
             p2 == DestroyAll(hosts, [p1 EXCEPT !.mHostRegistrations = EmptyMap])
         IN  [p2 EXCEPT !.mHostsRef = FALSE]

\* PublisherMDnsSd::PublishService; aRegisterError is what DNSServiceRegister returns
MdnssdPublishService(aHostName, aName, aType, aSubTypeList, aPort, aTxtList, aCallback, aRegisterError, p) ==
    LET sortedSubTypeList == SortSubTypeList(aSubTypeList)
        sortedTxtList == SortTxtList(aTxtList)
        p1 == IF aHostName # <<>> THEN FindHostRegistration(aHostName, p) ELSE p
        hostMissing == aHostName # <<>> /\ p1.mHostRegistrations[MakeFullHostName(aHostName)].null
        dup == HandleDuplicateServiceRegistration(aHostName, aName, aType, sortedSubTypeList, aPort,
                                                  sortedTxtList, aCallback, p1)
        p3 == [dup.p EXCEPT !.registerCalls = @ + 1]
    IN  IF hostMissing THEN Invoke(aCallback, "OTBR_ERROR_INVALID_ARGS", p1)
        ELSE IF IsNull(dup.ret) THEN dup.p
        ELSE IF EncodeTxtData(aTxtList) # "OTBR_ERROR_NONE"
        THEN Invoke(dup.ret, EncodeTxtData(aTxtList), dup.p)
        ELSE IF aRegisterError # "kDNSServiceErr_NoError"
        THEN Invoke(dup.ret, DNSErrorToOtbrError(aRegisterError), p3)
        ELSE AddServiceRegistration(
                 NewServiceRegistration(aHostName, aName, aType, sortedSubTypeList, aPort,
                                        sortedTxtList, dup.ret, EncodedTxtData(aTxtList)), p3)

\* PublisherMDnsSd::UnpublishService
MdnssdUnpublishService(aName, aType, aCallback, p) ==
    Invoke(aCallback, "OTBR_ERROR_NONE", RemoveServiceRegistration(aName, aType, p))

\* PublisherMDnsSd::PublishHost; aConnectError is what DNSServiceCreateConnection
\* returns, aRegisterError what DNSServiceRegisterRecord returns.  The address
\* check stores OTBR_ERROR_INVALID_ARGS in the DNSServiceErrorType variable.
MdnssdPublishHost(aName, aAddress, aCallback, aConnectError, aRegisterError, p) ==
    LET connect == ~p.mHostsRef
        p1 == IF connect /\ aConnectError = "kDNSServiceErr_NoError"
              THEN [p EXCEPT !.mHostsRef = TRUE] ELSE p
        dup == HandleDuplicateHostRegistration(aName, aAddress, aCallback, p1)
        p3 == [dup.p EXCEPT !.registerCalls = @ + 1]
    IN  IF Len(aAddress) # OTBR_IP6_ADDRESS_SIZE
        THEN Invoke(aCallback, DNSErrorToOtbrError("OTBR_ERROR_INVALID_ARGS"), p)
        ELSE IF connect /\ aConnectError # "kDNSServiceErr_NoError"
        THEN Invoke(aCallback, DNSErrorToOtbrError(aConnectError), p)
        ELSE IF IsNull(dup.ret) THEN dup.p
        ELSE IF aRegisterError # "kDNSServiceErr_NoError"
        THEN Invoke(dup.ret, DNSErrorToOtbrError(aRegisterError), p3)
        ELSE AddHostRegistration(NewHostRegistration(aName, aAddress, dup.ret), p3)

\* PublisherMDnsSd::UnpublishHost
MdnssdUnpublishHost(aName, aCallback, p) ==
    Invoke(aCallback, "OTBR_ERROR_NONE", RemoveHostRegistration(aName, p))

\* PublisherMDnsSd::HandleServiceRegisterResult for the DNSServiceRef of the
\* registration at key; aAdd is aFlags & kDNSServiceFlagsAdd.  aName, the name
\* mDNSResponder registered, is compared and logged only.
MdnssdHandleServiceRegisterResult(key, aAdd, aError, aName, p) ==
    LET serviceReg == p.mServiceRegistrations[key]
    IN  IF aError = "kDNSServiceErr_NoError" /\ aAdd
        THEN Complete(key, "OTBR_ERROR_NONE", p, TRUE)
        ELSE RemoveServiceRegistration(serviceReg.mName, serviceReg.mType,
                                       Complete(key, DNSErrorToOtbrError(aError), p, TRUE))

\* PublisherMDnsSd::HandleRegisterHostResult for the record of the registration at key
MdnssdHandleRegisterHostResult(key, aError, p) ==
    LET hostReg == p.mHostRegistrations[key]
        error == DNSErrorToOtbrError(aError)
    IN  IF error = "OTBR_ERROR_NONE"
        THEN Complete(key, "OTBR_ERROR_NONE", p, FALSE)
        ELSE RemoveHostRegistration(hostReg.mName, Complete(key, error, p, FALSE))

\* PublisherMDnsSd::Update and Process call GetServiceRef() on every entry of
\* mServiceRegistrations: a null entry is dereferenced
MdnssdMainloopFaults(p) == \E k \in DOMAIN p.mServiceRegistrations : p.mServiceRegistrations[k].null

----------------------------------------------------------------------------
(* PublisherAvahi (mdns_avahi.cpp) *)

\* PublisherAvahi::TxtListToAvahiStringList: the error it returns
TxtListToAvahiStringList(aTxtList) ==
    LET aBufferSize == ((kMaxSizeOfTxtRecord - 1) \div kSizeofAvahiStringList + 1) * kSizeofAvahiStringList
        needed(i) == kSizeofAvahiStringList - 1 + Len(aTxtList[i].mName) + Len(aTxtList[i].mValue) + 1
        RECURSIVE used(_)
        used(i) == IF i = 0 THEN 0 ELSE used(i - 1) + needed(i)
    IN  IF \A i \in 1..Len(aTxtList) : used(i) <= aBufferSize
        THEN "OTBR_ERROR_NONE" ELSE "OTBR_ERROR_INVALID_ARGS"

\* PublisherAvahi::TxtListToAvahiStringList: the list aHead points to, each
\* entry linked in front of the entries made before it, as "name=value" texts
RECURSIVE AvahiStringList(_)
AvahiStringList(aTxtList) ==
    IF aTxtList = <<>> THEN <<>>
    ELSE AvahiStringList(Tail(aTxtList)) \o <<Head(aTxtList).mName \o <<61>> \o Head(aTxtList).mValue>>

\* PublisherAvahi::Start; aClientNew tells whether avahi_client_new gave a client
AvahiStart(p, aClientNew) == [p EXCEPT !.mClient = aClientNew]

\* PublisherAvahi::Stop: mState is left as it is
AvahiStop(p, serviceOrder, hostOrder) ==
    LET services == [i \in DOMAIN serviceOrder |-> p.mServiceRegistrations[serviceOrder[i]]]
        hosts == [i \in DOMAIN hostOrder |-> p.mHostRegistrations[hostOrder[i]]]
        p1 == DestroyAll(services, [p EXCEPT !.mServiceRegistrations = EmptyMap])
        p2 == DestroyAll(hosts, [p1 EXCEPT !.mHostRegistrations = EmptyMap])
    IN  [p2 EXCEPT !.mClient = FALSE]

\* PublisherAvahi::HandleClientState
AvahiHandleClientState(aState, p, serviceOrder, hostOrder) ==
    LET services == [i \in DOMAIN serviceOrder |-> p.mServiceRegistrations[serviceOrder[i]]]
        hosts == [i \in DOMAIN hostOrder |-> p.mHostRegistrations[hostOrder[i]]]
        p1 == DestroyAll(services, [p EXCEPT !.mServiceRegistrations = EmptyMap])
    IN  CASE aState = "AVAHI_CLIENT_S_RUNNING" -> [p EXCEPT !.mClient = TRUE, !.mState = "kReady"]
          [] aState = "AVAHI_CLIENT_FAILURE" -> [p EXCEPT !.mState = "kIdle"]
          [] aState \in {"AVAHI_CLIENT_S_COLLISION", "AVAHI_CLIENT_S_REGISTERING"}
                -> DestroyAll(hosts, [p1 EXCEPT !.mHostRegistrations = EmptyMap])
          [] OTHER -> p

\* PublisherAvahi::PublishService; aGroup tells whether CreateGroup gave a
\* group, aAvahiError is the first non-zero result of add_service,
\* add_service_subtype or commit, 0 if there is none.  CreateGroup is the
\* request to the daemon that registerCalls counts.
AvahiPublishService(aHostName, aName, aType, aSubTypeList, aPort, aTxtList, aCallback, aGroup, aAvahiError, p) ==
    LET sortedSubTypeList == SortSubTypeList(aSubTypeList)
        sortedTxtList == SortTxtList(aTxtList)
        p1 == IF aHostName # <<>> THEN FindHostRegistration(aHostName, p) ELSE p
        hostMissing == aHostName # <<>> /\ p1.mHostRegistrations[MakeFullHostName(aHostName)].null
        dup == HandleDuplicateServiceRegistration(aHostName, aName, aType, sortedSubTypeList, aPort,
                                                  sortedTxtList, aCallback, p1)
        p3 == [dup.p EXCEPT !.registerCalls = @ + 1]
    IN  IF p.mState # "kReady" \/ ~p.mClient THEN Invoke(aCallback, "OTBR_ERROR_INVALID_STATE", p)
        ELSE IF hostMissing THEN Invoke(aCallback, "OTBR_ERROR_INVALID_ARGS", p1)
        ELSE IF IsNull(dup.ret) THEN dup.p
        ELSE IF TxtListToAvahiStringList(aTxtList) # "OTBR_ERROR_NONE"
        THEN Invoke(dup.ret, TxtListToAvahiStringList(aTxtList), dup.p)
        ELSE IF ~aGroup THEN Invoke(dup.ret, "OTBR_ERROR_MDNS", p3)
        ELSE IF aAvahiError # 0 THEN Invoke(dup.ret, "OTBR_ERROR_MDNS", p3)
        ELSE AddServiceRegistration(
                 NewServiceRegistration(aHostName, aName, aType, sortedSubTypeList, aPort,
                                        sortedTxtList, dup.ret, AvahiStringList(aTxtList)), p3)

\* PublisherAvahi::UnpublishService
AvahiUnpublishService(aName, aType, aCallback, p) ==
    Invoke(aCallback, "OTBR_ERROR_NONE", RemoveServiceRegistration(aName, aType, p))

\* PublisherAvahi::PublishHost
AvahiPublishHost(aName, aAddress, aCallback, aGroup, aAvahiError, p) ==
    LET dup == HandleDuplicateHostRegistration(aName, aAddress, aCallback, p)
        p3 == [dup.p EXCEPT !.registerCalls = @ + 1]
    IN  IF p.mState # "kReady" \/ ~p.mClient THEN Invoke(aCallback, "OTBR_ERROR_INVALID_STATE", p)
        ELSE IF Len(aAddress) # OTBR_IP6_ADDRESS_SIZE THEN Invoke(aCallback, "OTBR_ERROR_INVALID_ARGS", p)
        ELSE IF IsNull(dup.ret) THEN dup.p
        ELSE IF ~aGroup THEN Invoke(dup.ret, "OTBR_ERROR_MDNS", p3)
        ELSE IF aAvahiError # 0 THEN Invoke(dup.ret, "OTBR_ERROR_MDNS", p3)
        ELSE AddHostRegistration(NewHostRegistration(aName, aAddress, dup.ret), p3)

\* PublisherAvahi::UnpublishHost
AvahiUnpublishHost(aName, aCallback, p) ==
    Invoke(aCallback, "OTBR_ERROR_NONE", RemoveHostRegistration(aName, p))

\* PublisherAvahi::CallHostOrServiceCallback for the entry group of the
\* registration at key: std::move(mCallback)(aError) with no null check
AvahiCallHostOrServiceCallback(key, services, aError, p) ==
    LET map == IF services THEN p.mServiceRegistrations ELSE p.mHostRegistrations
        reg == map[key]
        p1 == IF services THEN [p EXCEPT !.mServiceRegistrations[key].mCallback = <<>>]
                          ELSE [p EXCEPT !.mHostRegistrations[key].mCallback = <<>>]
        p2 == InvokeOnce(reg.mCallback, aError, p1)
    IN  IF aError = "OTBR_ERROR_NONE" \/ p2.crashed THEN p2
        ELSE IF services THEN RemoveServiceRegistration(reg.mName, reg.mType, p2)
        ELSE RemoveHostRegistration(reg.mName, p2)

\* PublisherAvahi::HandleGroupState
AvahiHandleGroupState(key, services, aState, p) ==
    CASE aState = "AVAHI_ENTRY_GROUP_ESTABLISHED"
            -> AvahiCallHostOrServiceCallback(key, services, "OTBR_ERROR_NONE", p)
      [] aState = "AVAHI_ENTRY_GROUP_COLLISION"
            -> AvahiCallHostOrServiceCallback(key, services, "OTBR_ERROR_DUPLICATED", p)
      [] aState = "AVAHI_ENTRY_GROUP_FAILURE"
            -> AvahiCallHostOrServiceCallback(key, services, "OTBR_ERROR_MDNS", p)
      [] OTHER -> p

----------------------------------------------------------------------------
(* The publisher as its consumers and its backend drive it *)

\* the publisher and what its callbacks can reach, as one value
Pub ==
    [mState |-> mState, mClient |-> mClient, mHostsRef |-> mHostsRef,
     mServiceRegistrations |-> mServiceRegistrations, mHostRegistrations |-> mHostRegistrations,
     cbLog |-> cbLog, registerCalls |-> registerCalls, crashed |-> crashed,
     mServiceInstanceName |-> mServiceInstanceName]

SetPub(p) ==
    /\ mState' = p.mState
    /\ mClient' = p.mClient
    /\ mHostsRef' = p.mHostsRef
    /\ mServiceRegistrations' = p.mServiceRegistrations
    /\ mHostRegistrations' = p.mHostRegistrations
    /\ cbLog' = p.cbLog
    /\ registerCalls' = p.registerCalls
    /\ crashed' = p.crashed
    /\ mServiceInstanceName' = p.mServiceInstanceName

\* TXT entries and lists the consumers publish
TxtA == [mName |-> <<97>>, mValue |-> <<49>>]
TxtB == [mName |-> <<98>>, mValue |-> <<50>>]
TxtLong == [mName |-> <<99>>, mValue |-> [i \in 1..kMaxTextEntrySize |-> 48]]

\* IPv6 addresses and one address that is too short
Address1 == [i \in 1..OTBR_IP6_ADDRESS_SIZE |-> 1]
Address2 == [i \in 1..OTBR_IP6_ADDRESS_SIZE |-> 2]
Address4 == <<192, 0, 2, 1>>

\* the host "h" and the service instance "s"
HostH == <<104>>
ServiceS == <<115>>

\* the service type of the other consumers, "_a._tcp"
kAppType == <<95, 97, 46, 95, 116, 99, 112>>

BaseService ==
    [aHostName |-> <<>>, aName |-> ServiceS, aType |-> kAppType, aSubTypeList |-> <<>>,
     aPort |-> kPort, aTxtList |-> <<TxtA, TxtB>>]

\* the publish_service requests: one base request, the same with its TXT list
\* in another order, requests that differ from it in one field, and one of
\* these, with the subtypes "y" and "x", with its subtype list in another order
ServiceRequests ==
    {BaseService,
     [BaseService EXCEPT !.aTxtList = <<TxtB, TxtA>>],
     [BaseService EXCEPT !.aTxtList = <<TxtLong>>],
     [BaseService EXCEPT !.aPort = kPort + 1],
     [BaseService EXCEPT !.aSubTypeList = <<<<121>>, <<120>>>>],
     [BaseService EXCEPT !.aSubTypeList = <<<<120>>, <<121>>>>],
     [BaseService EXCEPT !.aHostName = HostH]}

HostRequests ==
    {[aName |-> HostH, aAddress |-> Address1],
     [aName |-> HostH, aAddress |-> Address2],
     [aName |-> HostH, aAddress |-> Address4]}

\* the callback a consumer supplies with a call of the given kind
AppCallback(kind) == <<[id |-> NextId, kind |-> kind]>>

\* what the backend answers to a register request while the call is running
\* mdnssd: what DNSServiceCreateConnection and DNSServiceRegister or
\* DNSServiceRegisterRecord return; avahi: whether CreateGroup gives a group
\* and the first non-zero result of the calls on it (AVAHI_ERR_FAILURE is -1)
RegisterOutcomes ==
    IF backend = "mdnssd"
    THEN {[connectError |-> "kDNSServiceErr_NoError", dnsError |-> "kDNSServiceErr_NoError"],
          [connectError |-> "kDNSServiceErr_NoError", dnsError |-> "kDNSServiceErr_BadParam"],
          [connectError |-> "kDNSServiceErr_Unknown", dnsError |-> "kDNSServiceErr_NoError"]}
    ELSE {[group |-> TRUE, avahiError |-> 0], [group |-> TRUE, avahiError |-> 0 - 1],
          [group |-> FALSE, avahiError |-> 0]}

\* Publisher::PublishService, the virtual call
PublisherPublishService(r, aCallback, o, p) ==
    IF backend = "mdnssd"
    THEN MdnssdPublishService(r.aHostName, r.aName, r.aType, r.aSubTypeList, r.aPort, r.aTxtList,
                              aCallback, o.dnsError, p)
    ELSE AvahiPublishService(r.aHostName, r.aName, r.aType, r.aSubTypeList, r.aPort, r.aTxtList,
                             aCallback, o.group, o.avahiError, p)

\* Publisher::PublishHost, the virtual call
PublisherPublishHost(r, aCallback, o, p) ==
    IF backend = "mdnssd"
    THEN MdnssdPublishHost(r.aName, r.aAddress, aCallback, o.connectError, o.dnsError, p)
    ELSE AvahiPublishHost(r.aName, r.aAddress, aCallback, o.group, o.avahiError, p)

\* Publisher::UnpublishService, the virtual call
PublisherUnpublishService(aName, aType, aCallback, p) ==
    IF backend = "mdnssd" THEN MdnssdUnpublishService(aName, aType, aCallback, p)
    ELSE AvahiUnpublishService(aName, aType, aCallback, p)

\* Publisher::UnpublishHost, the virtual call
PublisherUnpublishHost(aName, aCallback, p) ==
    IF backend = "mdnssd" THEN MdnssdUnpublishHost(aName, aCallback, p)
    ELSE AvahiUnpublishHost(aName, aCallback, p)

\* the variables of the controller and of the discovery side, and the DSO transport
Quiet == UNCHANGED <<backend, mSubscriberId, mSubscribedServices, mDiscoveredCallbacks,
                   browseResults, dnssdName, dsoVars>>

\* Publisher::Start
Start ==
    /\ ~crashed
    /\ IF backend = "mdnssd"
       THEN SetPub(MdnssdStart(Pub))
       ELSE /\ ~mClient
            /\ \E aClientNew \in BOOLEAN : SetPub(AvahiStart(Pub, aClientNew))
    /\ UNCHANGED callsMade
    /\ Quiet

\* Publisher::Stop
Stop ==
    /\ ~crashed
    /\ \E so \in DestroyOrders(mServiceRegistrations), ho \in DestroyOrders(mHostRegistrations) :
          SetPub(IF backend = "mdnssd" THEN MdnssdStop(Pub, so, ho) ELSE AvahiStop(Pub, so, ho))
    /\ UNCHANGED callsMade
    /\ Quiet

\* a consumer calls PublishService
PublishService(r, o) ==
    /\ ~crashed
    /\ callsMade < MaxCalls
    /\ o \in RegisterOutcomes
    /\ SetPub(PublisherPublishService(r, AppCallback("PublishService"), o, Pub))
    /\ callsMade' = callsMade + 1
    /\ Quiet

\* a consumer calls UnpublishService
UnpublishService(aName, aType) ==
    /\ ~crashed
    /\ callsMade < MaxCalls
    /\ SetPub(PublisherUnpublishService(aName, aType, AppCallback("UnpublishService"), Pub))
    /\ callsMade' = callsMade + 1
    /\ Quiet

\* a consumer calls PublishHost
PublishHost(r, o) ==
    /\ ~crashed
    /\ callsMade < MaxCalls
    /\ o \in RegisterOutcomes
    /\ SetPub(PublisherPublishHost(r, AppCallback("PublishHost"), o, Pub))
    /\ callsMade' = callsMade + 1
    /\ Quiet

\* a consumer calls UnpublishHost
UnpublishHost(aName) ==
    /\ ~crashed
    /\ callsMade < MaxCalls
    /\ SetPub(PublisherUnpublishHost(aName, AppCallback("UnpublishHost"), Pub))
    /\ callsMade' = callsMade + 1
    /\ Quiet

\* the registrations a backend event can be about
LiveKeys(map) == {k \in DOMAIN map : ~map[k].null}

\* the names mDNSResponder may register an instance under: the name asked
\* for, that name renamed after a conflict, or the computer name "otbr" when
\* the name asked for is empty
BackendNames(aName) ==
    IF aName = <<>> THEN {<<111, 116, 98, 114>>} ELSE {aName, aName \o <<32, 40, 50, 41>>}

\* the mainloop of the mdnssd build runs Update and Process on a map that holds a null entry
MdnssdMainloopCrash ==
    /\ ~crashed
    /\ backend = "mdnssd"
    /\ MdnssdMainloopFaults(Pub)
    /\ crashed' = TRUE
    /\ UNCHANGED <<mState, mClient, mHostsRef, mServiceRegistrations, mHostRegistrations, cbLog,
                   registerCalls, callsMade, mServiceInstanceName>>
    /\ Quiet

\* mDNSResponder answers a DNSServiceRegister: Process, HandleServiceRegisterResult
HandleServiceRegisterResult(key, aAdd, aError, aName) ==
    /\ ~crashed
    /\ backend = "mdnssd"
    /\ ~MdnssdMainloopFaults(Pub)
    /\ key \in LiveKeys(mServiceRegistrations)
    /\ aName \in BackendNames(mServiceRegistrations[key].mName)
    /\ SetPub(MdnssdHandleServiceRegisterResult(key, aAdd, aError, aName, Pub))
    /\ dnssdName' = IF /\ aError = "kDNSServiceErr_NoError" /\ aAdd
                       /\ IsServiceTypeEqual(mServiceRegistrations[key].mType, kServiceType)
                    THEN aName ELSE dnssdName
    /\ UNCHANGED <<backend, callsMade, mSubscriberId, mSubscribedServices,
                   mDiscoveredCallbacks, browseResults, dsoVars>>

\* mDNSResponder answers a DNSServiceRegisterRecord: Process, HandleRegisterHostResult
HandleRegisterHostResult(key, aError) ==
    /\ ~crashed
    /\ backend = "mdnssd"
    /\ ~MdnssdMainloopFaults(Pub)
    /\ key \in LiveKeys(mHostRegistrations)
    /\ SetPub(MdnssdHandleRegisterHostResult(key, aError, Pub))
    /\ UNCHANGED callsMade
    /\ Quiet

\* the avahi daemon reports the state of an entry group
HandleGroupState(key, services, aState) ==
    /\ ~crashed
    /\ backend = "avahi"
    /\ key \in LiveKeys(IF services THEN mServiceRegistrations ELSE mHostRegistrations)
    /\ SetPub(AvahiHandleGroupState(key, services, aState, Pub))
    /\ dnssdName' = IF /\ services /\ aState = "AVAHI_ENTRY_GROUP_ESTABLISHED"
                       /\ IsServiceTypeEqual(mServiceRegistrations[key].mType, kServiceType)
                    THEN mServiceRegistrations[key].mName ELSE dnssdName
    /\ UNCHANGED <<backend, callsMade, mSubscriberId, mSubscribedServices,
                   mDiscoveredCallbacks, browseResults, dsoVars>>

\* the avahi daemon reports the state of the client
HandleClientState(aState) ==
    /\ ~crashed
    /\ backend = "avahi"
    /\ mClient
    /\ \E so \in DestroyOrders(mServiceRegistrations), ho \in DestroyOrders(mHostRegistrations) :
          SetPub(AvahiHandleClientState(aState, Pub, so, ho))
    /\ UNCHANGED callsMade
    /\ Quiet

----------------------------------------------------------------------------
(* SrplDnssd (srpl_dnssd.cpp) *)

\* Publisher::DecodeTxtData(aTxtList, aTxtData, aTxtLength): entries of one
\* length byte and that many bytes, each split at its first '='; an entry
\* that runs past aTxtLength is a parse error
RECURSIVE DecodeTxtData(_, _, _)
DecodeTxtData(aTxtData, aTxtLength, r) ==
    IF r >= aTxtLength THEN [error |-> "OTBR_ERROR_NONE", list |-> <<>>]
    ELSE LET entrySize == aTxtData[r + 1]
             entryEnd == r + 1 + entrySize
             entry == SubSeq(aTxtData, r + 2, Min(entryEnd, Len(aTxtData)))
             eq == {i \in 1..Len(entry) : entry[i] = 61}
             keyLen == IF eq = {} THEN Len(entry)
                       ELSE (CHOOSE i \in eq : \A j \in eq : i <= j) - 1
             rest == DecodeTxtData(aTxtData, aTxtLength, entryEnd)
         IN  IF entryEnd > aTxtLength THEN [error |-> "OTBR_ERROR_PARSE", list |-> <<>>]
             ELSE [error |-> rest.error,
                   list |-> <<[mName |-> SubSeq(entry, 1, keyLen),
                               mValue |-> SubSeq(entry, keyLen + 2, Len(entry))]>> \o rest.list]

\* StringUtils::EqualCaseInsensitive
ToLower(ch) == IF ch >= 65 /\ ch <= 90 THEN ch + 32 ELSE ch
EqualCaseInsensitive(s, t) ==
    Len(s) = Len(t) /\ \A i \in 1..Len(s) : ToLower(s[i]) = ToLower(t[i])

\* the TXT data the SRP Replication engine registers: none, one entry "a=1",
\* and data of 260 bytes (the entry "a=1" and an entry "b=2...2" of 255 bytes)
LongEntry == <<255, 98, 61>> \o [i \in 1..253 |-> 50]
SrplTxtData == {<<>>, <<3, 97, 61, 49>>, <<3, 97, 61, 49>> \o LongEntry}

\* the conversion of the uint16_t aTxtLength to the uint8_t parameter of RegisterService
ToUint8(n) == n % 256

\* SrplDnssd::RegisterService(aTxtData, aTxtLength)
SrplRegisterService(aTxtData, aTxtLength, aCallback, o, p) ==
    LET decoded == DecodeTxtData(aTxtData, aTxtLength, 0)
        r == [aHostName |-> <<>>, aName |-> <<>>, aType |-> kServiceType, aSubTypeList |-> <<>>,
              aPort |-> kPort, aTxtList |-> decoded.list]
    IN  IF decoded.error # "OTBR_ERROR_NONE" THEN p
        ELSE PublisherPublishService(r, aCallback, o, p)

\* otPlatSrplRegisterDnssdService(aInstance, aTxtData, aTxtLength)
otPlatSrplRegisterDnssdService(aTxtData, o) ==
    /\ ~crashed
    /\ callsMade < MaxSrplCalls
    /\ o \in RegisterOutcomes
    /\ SetPub(SrplRegisterService(aTxtData, ToUint8(Len(aTxtData)),
                                  <<[id |-> NextId, kind |-> "srpl_register"]>>, o, Pub))
    /\ callsMade' = callsMade + 1
    /\ Quiet

\* otPlatSrplUnregisterDnssdService: SrplDnssd::UnregisterService
otPlatSrplUnregisterDnssdService ==
    /\ ~crashed
    /\ callsMade < MaxSrplCalls
    /\ SetPub(PublisherUnpublishService(mServiceInstanceName, kServiceType,
                                        <<[id |-> NextId, kind |-> "srpl_unregister"]>>, Pub))
    /\ callsMade' = callsMade + 1
    /\ Quiet

\* a value-initialised DiscoveredInstanceInfo
NoInstanceInfo ==
    [mName |-> <<>>, mRemoved |-> FALSE, mAddresses |-> <<>>, mPort |-> 0, mTxtData |-> <<>>,
     mNetifIndex |-> 0]

\* a ServiceSubscription as SubscribeService constructs it. mServiceRef tells
\* which request the subscription holds at the daemon: "browse", "resolve",
\* "getaddrinfo" or "nullptr" (for avahi: mServiceBrowser is set when it is
\* "browse" and mServiceResolver when it is "resolve"); request is the instance
\* the outstanding resolve asks for. reported and delivered are history: the
\* instances the browse has reported and those handed to the callbacks.
NewServiceSubscription(aType, aInstanceName) ==
    [mType |-> aType, mInstanceName |-> aInstanceName, mServiceRef |-> "nullptr",
     request |-> <<>>, mInstanceInfo |-> NoInstanceInfo, reported |-> {}, delivered |-> {}]

\* Publisher::SubscribeService(aType, aInstanceName): one more subscription at
\* the end of the list, whether or not an equal one is there already; it
\* browses when aInstanceName is empty and resolves the instance otherwise
SubscribeService(aType, aInstanceName, list) ==
    Append(list, [NewServiceSubscription(aType, aInstanceName) EXCEPT
                     !.mServiceRef = IF aInstanceName = <<>> THEN "browse" ELSE "resolve",
                     !.request = aInstanceName])

\* the assert of PublisherAvahi::ServiceSubscription::Browse fails: there is no client
BrowseAsserts == backend = "avahi" /\ ~mClient

\* the find_if of UnsubscribeService: the first subscription of that type and
\* instance name, 0 when there is none
FirstSubscription(aType, aInstanceName, list) ==
    LET hits == {i \in 1..Len(list) : /\ list[i].mType = aType
                                      /\ list[i].mInstanceName = aInstanceName}
    IN  IF hits = {} THEN 0 ELSE CHOOSE i \in hits : \A j \in hits : i <= j

\* Publisher::UnsubscribeService(aType, aInstanceName): the first equal
\* subscription is released and erased; the code asserts that there is one
UnsubscribeService(aType, aInstanceName, list) ==
    LET i == FirstSubscription(aType, aInstanceName, list)
    IN  IF i = 0 THEN list
        ELSE SubSeq(list, 1, i - 1) \o SubSeq(list, i + 1, Len(list))

\* Publisher::AddSubscriptionCallbacks: the callbacks are kept under a new id
AddSubscriptionCallbacks(aId, callbacks) == callbacks \cup {aId}

\* Publisher::RemoveSubscriptionCallbacks(aSubscriberId)
RemoveSubscriptionCallbacks(aSubscriberId, callbacks) == callbacks \ {aSubscriberId}

\* the controller's subscriber id and what the publisher holds for subscribers
Browsing ==
    [mSubscriberId |-> mSubscriberId,
     mSubscribedServices |-> mSubscribedServices,
     mDiscoveredCallbacks |-> mDiscoveredCallbacks,
     failed |-> FALSE]

StartBrowse_Unguarded(s) ==
    [s EXCEPT !.mSubscriberId = NextId,
              !.mDiscoveredCallbacks = AddSubscriptionCallbacks(NextId, s.mDiscoveredCallbacks),
              !.mSubscribedServices = SubscribeService(kServiceType, <<>>, s.mSubscribedServices),
              !.failed = BrowseAsserts]
\* SrplDnssd::StartBrowse: nothing while mSubscriberId is set; AddSubscriptionCallbacks
\* returns a new non-zero id; the subscription is in the list when Browse asserts
StartBrowse(s) ==
    IF s.mSubscriberId # 0 THEN s
    ELSE [s EXCEPT !.mSubscriberId = NextId,
                   !.mDiscoveredCallbacks = AddSubscriptionCallbacks(NextId, s.mDiscoveredCallbacks),
                   !.mSubscribedServices = SubscribeService(kServiceType, <<>>, s.mSubscribedServices),
                   !.failed = BrowseAsserts]

\* SrplDnssd::StopBrowse: nothing while mSubscriberId is 0; the assert of
\* UnsubscribeService ends the process when the subscription is not there
StopBrowse(s) ==
    IF s.mSubscriberId = 0 THEN s
    ELSE [s EXCEPT !.mSubscriberId = 0,
                   !.mDiscoveredCallbacks = RemoveSubscriptionCallbacks(s.mSubscriberId, s.mDiscoveredCallbacks),
                   !.mSubscribedServices = UnsubscribeService(kServiceType, <<>>, s.mSubscribedServices),
                   !.failed = (FirstSubscription(kServiceType, <<>>, s.mSubscribedServices) = 0)]

\* otPlatSrplDnssdBrowse(aInstance, aEnable): StartBrowse or StopBrowse
otPlatSrplDnssdBrowse(aEnable) ==
    /\ ~crashed
    /\ callsMade < MaxSrplCalls
    /\ LET s == IF aEnable THEN StartBrowse(Browsing) ELSE StopBrowse(Browsing)
       IN  /\ mSubscriberId' = s.mSubscriberId
           /\ mSubscribedServices' = s.mSubscribedServices
           /\ mDiscoveredCallbacks' = s.mDiscoveredCallbacks
           /\ crashed' = s.failed
    /\ callsMade' = callsMade + 1
    /\ UNCHANGED <<backend, mState, mClient, mHostsRef, mServiceRegistrations, mHostRegistrations,
                   cbLog, registerCalls, mServiceInstanceName, browseResults, dnssdName,
                   dsoVars>>

\* the instances the publisher resolves: "otbr", "OTBR" and "peer"
DiscoveredNames == {<<111, 116, 98, 114>>, <<79, 84, 66, 82>>, <<112, 101, 101, 114>>}
\* the types it resolves them for: "_srpl-tls._tcp", "_SRPL-TLS._TCP" and "_a._tcp"
DiscoveredTypes ==
    {kServiceType, <<95, 83, 82, 80, 76, 45, 84, 76, 83, 46, 95, 84, 67, 80>>, kAppType}
\* otSysGetInfraNetifIndex(): the index of the infrastructure network interface
otSysGetInfraNetifIndex == 2
\* the interfaces an instance is resolved on: the infrastructure interface and another
NetifIndexes == {otSysGetInfraNetifIndex, otSysGetInfraNetifIndex + 1}

\* the address 2001:db8::2 of a peer
PeerAddress == <<32, 1, 13, 184, 0, 0, 0, 0, 0, 0, 0, 0, 0, 0, 0, 2>>

\* the addresses the publisher resolves: none, one, and two of them, and the
\* TXT data of the instance: none and the entry "a=1"
DiscoveredInstances ==
    {[mName |-> n, mRemoved |-> FALSE, mAddresses |-> a, mPort |-> kPort, mTxtData |-> t,
      mNetifIndex |-> x] :
        n \in DiscoveredNames,
        a \in {<<>>, <<PeerAddress>>, <<Address2, PeerAddress>>},
        t \in {<<>>, <<3, 97, 61, 49>>},
        x \in NetifIndexes}
    \cup {[mName |-> n, mRemoved |-> TRUE, mAddresses |-> a, mPort |-> kPort, mTxtData |-> <<>>,
           mNetifIndex |-> x] :
            n \in DiscoveredNames, a \in {<<>>, <<PeerAddress>>}, x \in NetifIndexes}

\* Ip6Address::ToString: the eight 16-bit groups of the address, each read in
\* network byte order, as the text prints them
Ip6AddressToString(aAddress) ==
    [g \in 1..(OTBR_IP6_ADDRESS_SIZE \div 2) |-> aAddress[2 * g - 1] * 256 + aAddress[2 * g]]

\* otIp6AddressFromString: the 16 bytes of the eight groups of the text
otIp6AddressFromString(aString) ==
    [i \in 1..(2 * Len(aString)) |->
        IF i % 2 = 1 THEN aString[(i + 1) \div 2] \div 256 ELSE aString[i \div 2] % 256]

\* SrplDnssd::OnServiceInstanceResolved: the upcalls made so far after it ran.
\* partnerInfo is not initialised: what a removal hands over as mSockAddr and
\* as TXT data is not defined, and the record of a removal has no such fields.
OnServiceInstanceResolved(aType, aInstanceInfo, results) ==
    IF mSubscriberId = 0 THEN results
    ELSE IF ~EqualCaseInsensitive(aType, kServiceType) THEN results
    ELSE IF EqualCaseInsensitive(aInstanceInfo.mName, mServiceInstanceName) THEN results
    ELSE IF aInstanceInfo.mRemoved
    THEN Append(results, [mRemoved |-> TRUE, instance |-> aInstanceInfo.mName])
    ELSE IF aInstanceInfo.mAddresses = <<>> THEN results
    ELSE Append(results, [mRemoved |-> FALSE,
                          mSockAddr |-> [mAddress |-> otIp6AddressFromString(
                                                         Ip6AddressToString(Head(aInstanceInfo.mAddresses))),
                                         mPort |-> aInstanceInfo.mPort],
                          mTxtData |-> aInstanceInfo.mTxtData,
                          mTxtLength |-> Len(aInstanceInfo.mTxtData),
                          instance |-> aInstanceInfo.mName])

\* the publisher runs the instance callback the controller installed
ServiceInstanceResolved(aType, aInstanceInfo) ==
    /\ ~crashed
    /\ Len(browseResults) < MaxResults
    /\ mSubscriberId # 0
    /\ browseResults' = OnServiceInstanceResolved(aType, aInstanceInfo, browseResults)
    /\ UNCHANGED <<callsMade, backend, mState, mClient, mHostsRef, mServiceRegistrations, mHostRegistrations,
                   cbLog, registerCalls, crashed, mServiceInstanceName, mSubscriberId, mSubscribedServices,
                   mDiscoveredCallbacks, dnssdName,
                   dsoVars>>

\* what the daemon can report to a browse: mDNSResponder an added instance;
\* avahi a new instance, a failure, and the end of the first batch, which
\* carries no name
BrowseEvents ==
    IF backend = "mdnssd" THEN {"kDNSServiceFlagsAdd"}
    ELSE {"AVAHI_BROWSER_NEW", "AVAHI_BROWSER_FAILURE", "AVAHI_BROWSER_ALL_FOR_NOW"}

\* ServiceSubscription::HandleBrowseResult of both backends: the browse is
\* given up for the resolve of the instance (mdnssd: DeallocateServiceRef and
\* Resolve; avahi: Resolve and avahi_service_browser_free); avahi gives it up
\* on a failure as well
HandleBrowseResult(sub, aEvent, aName) ==
    IF aEvent = "AVAHI_BROWSER_FAILURE" THEN [sub EXCEPT !.mServiceRef = "nullptr"]
    ELSE [sub EXCEPT !.mServiceRef = "resolve", !.request = aName,
                     !.reported = sub.reported \cup {aName}]

\* the instance of that name on the network, as the backends fill mInstanceInfo
\* when it has been resolved: mRemoved and mNetifIndex are never assigned
ResolvedInstance(aName) ==
    [mName |-> aName, mRemoved |-> FALSE, mAddresses |-> <<PeerAddress>>, mPort |-> kPort,
     mTxtData |-> <<>>, mNetifIndex |-> 0]

\* ServiceSubscription::HandleResolveResult: mdnssd keeps name, port and TXT
\* data and asks for the addresses of the host; avahi has the address in the
\* same reply and keeps the resolver, since it frees it only while the
\* browser is set
HandleResolveResult(sub) ==
    IF backend = "mdnssd"
    THEN [sub EXCEPT !.mInstanceInfo = [ResolvedInstance(sub.request) EXCEPT !.mAddresses = <<>>],
                     !.mServiceRef = "getaddrinfo"]
    ELSE [sub EXCEPT !.mInstanceInfo = ResolvedInstance(sub.request),
                     !.delivered = sub.delivered \cup {sub.request}]

\* ServiceSubscription::HandleGetAddrInfoResult of mdnssd: one more address
HandleGetAddrInfoResult(sub) ==
    [sub EXCEPT !.mInstanceInfo.mAddresses = Append(sub.mInstanceInfo.mAddresses, PeerAddress),
                !.delivered = sub.delivered \cup {sub.mInstanceInfo.mName}]

\* OnServiceResolved: the instance callbacks that are installed run, here the
\* controller's
OnServiceResolved(sub) ==
    IF mDiscoveredCallbacks = {} THEN browseResults
    ELSE OnServiceInstanceResolved(sub.mType, sub.mInstanceInfo, browseResults)

\* the daemon reports an instance, or something else, to the browse of subscription i
BrowseReply(i, aEvent, aName) ==
    /\ ~crashed
    /\ i \in 1..Len(mSubscribedServices)
    /\ mSubscribedServices[i].mServiceRef = "browse"
    /\ aEvent \in BrowseEvents
    /\ aName \notin mSubscribedServices[i].reported
    /\ IF aEvent = "AVAHI_BROWSER_ALL_FOR_NOW"
       THEN crashed' = TRUE /\ UNCHANGED mSubscribedServices
       ELSE /\ mSubscribedServices' =
                  [mSubscribedServices EXCEPT ![i] = HandleBrowseResult(@, aEvent, aName)]
            /\ UNCHANGED crashed
    /\ UNCHANGED <<callsMade, backend, mState, mClient, mHostsRef, mServiceRegistrations, mHostRegistrations,
                   cbLog, registerCalls, mServiceInstanceName, mSubscriberId, mDiscoveredCallbacks,
                   browseResults, dnssdName, dsoVars>>

\* the daemon answers the resolve of subscription i
ResolveReply(i) ==
    /\ ~crashed
    /\ i \in 1..Len(mSubscribedServices)
    /\ mSubscribedServices[i].mServiceRef = "resolve"
    /\ mSubscribedServices[i].request \notin mSubscribedServices[i].delivered
    /\ mSubscribedServices' = [mSubscribedServices EXCEPT ![i] = HandleResolveResult(@)]
    /\ browseResults' = IF backend = "mdnssd" THEN browseResults
                        ELSE OnServiceResolved(HandleResolveResult(mSubscribedServices[i]))
    /\ UNCHANGED <<callsMade, backend, mState, mClient, mHostsRef, mServiceRegistrations, mHostRegistrations,
                   cbLog, registerCalls, crashed, mServiceInstanceName, mSubscriberId, mDiscoveredCallbacks,
                   dnssdName, dsoVars>>

\* mDNSResponder answers the DNSServiceGetAddrInfo of subscription i with an address
GetAddrInfoReply(i) ==
    /\ ~crashed
    /\ i \in 1..Len(mSubscribedServices)
    /\ mSubscribedServices[i].mServiceRef = "getaddrinfo"
    /\ mSubscribedServices[i].mInstanceInfo.mAddresses = <<>>
    /\ mSubscribedServices' = [mSubscribedServices EXCEPT ![i] = HandleGetAddrInfoResult(@)]
    /\ browseResults' = OnServiceResolved(HandleGetAddrInfoResult(mSubscribedServices[i]))
    /\ UNCHANGED <<callsMade, backend, mState, mClient, mHostsRef, mServiceRegistrations, mHostRegistrations,
                   cbLog, registerCalls, crashed, mServiceInstanceName, mSubscriberId, mDiscoveredCallbacks,
                   dnssdName, dsoVars>>

\* sSrplServiceInstanceName of srp_replication.cpp, "srpl(8)": kSrplServiceInstanceName
\* and a random number from GenerateServiceInstanceName
sSrplServiceInstanceName == <<115, 114, 112, 108, 40, 56, 41>>

\* HandleDiscoveredPeerInfo of srp_replication.cpp, the instance callback of
\* its otPlatSrplDnssdBrowse: the upcalls made so far after it ran
HandleDiscoveredPeerInfo(aType, aInstanceInfo, results) ==
    IF aType # kServiceType THEN results
    ELSE IF aInstanceInfo.mNetifIndex # otSysGetInfraNetifIndex THEN results
    ELSE IF ~aInstanceInfo.mRemoved /\ aInstanceInfo.mAddresses = <<>> THEN results
    ELSE IF aInstanceInfo.mName = sSrplServiceInstanceName THEN results
    ELSE IF aInstanceInfo.mRemoved
    THEN Append(results, [mRemoved |-> TRUE, instance |-> aInstanceInfo.mName])
    ELSE Append(results, [mRemoved |-> FALSE,
                          mSockAddr |-> [mAddress |-> otIp6AddressFromString(
                                                         Ip6AddressToString(Head(aInstanceInfo.mAddresses))),
                                         mPort |-> aInstanceInfo.mPort],
                          mTxtData |-> aInstanceInfo.mTxtData,
                          mTxtLength |-> Len(aInstanceInfo.mTxtData),
                          instance |-> aInstanceInfo.mName])

\* the publisher runs the instance callback that otPlatSrplDnssdBrowse of
\* srp_replication.cpp installed
DiscoveredPeerInfo(aType, aInstanceInfo) ==
    /\ ~crashed
    /\ Len(browseResults) < MaxResults
    /\ mSubscriberId # 0
    /\ browseResults' = HandleDiscoveredPeerInfo(aType, aInstanceInfo, browseResults)
    /\ UNCHANGED <<callsMade, backend, mState, mClient, mHostsRef, mServiceRegistrations, mHostRegistrations,
                   cbLog, registerCalls, crashed, mServiceInstanceName, mSubscriberId, mSubscribedServices,
                   mDiscoveredCallbacks, dnssdName, dsoVars>>

\* the names GenerateServiceInstanceName of srp_replication.cpp can give,
\* "srpl(" rand ")" with rand drawn from 1..65535: the name in use, "srpl(8)",
\* again, or another one, "srpl(9)"
GeneratedNames == {sSrplServiceInstanceName, <<115, 114, 112, 108, 40, 57, 41>>}

\* what the rename callback did: the lambda of UnpublishSrplService has run
Renamed == \E i \in 1..Len(cbLog) : cbLog[i].kind = "UnpublishSrplService"

\* otPlatSrplRegisterDnssdService of srp_replication.cpp with the decoded TXT
\* list: PublishSrplService(txtList) under sSrplServiceInstanceName, before
\* any rename.  aGenerated is the name GenerateServiceInstanceName gives if
\* the lambda is told of a name conflict, o2 what the backend answers to the
\* register request of the publish the lambda then makes.
PublishSrplService(aTxtList, aGenerated, o, o2) ==
    /\ ~crashed
    /\ callsMade < MaxCalls
    /\ ~Renamed
    /\ o \in RegisterOutcomes
    /\ o2 \in RegisterOutcomes
    /\ aGenerated \in GeneratedNames
    /\ LET r == [aHostName |-> <<>>, aName |-> sSrplServiceInstanceName, aType |-> kServiceType,
                 aSubTypeList |-> <<>>, aPort |-> kPort, aTxtList |-> aTxtList]
           lambda == [id |-> NextId, kind |-> "PublishSrplService", unpublish |-> r.aName,
                      republish |-> [r EXCEPT !.aName = aGenerated], o |-> o2]
       IN  SetPub(PublisherPublishService(r, <<lambda>>, o, Pub))
    /\ callsMade' = callsMade + 1
    /\ Quiet

----------------------------------------------------------------------------
(* Specifications *)

\* the DSO transport before any call
DsoIdle ==
    /\ mMap = [h \in Handles |-> NoConn]
    /\ socks = [f \in SockFds |-> ClosedSock]
    /\ procQueue = <<>>
    /\ hostLog = [h \in Handles |-> [connected |-> 0, disconnected |-> 0, received |-> <<>>]]
    /\ peerSent = [f \in SockFds |-> <<>>]
    /\ missedDisconnect = FALSE

\* the DsoAgent after construction: not listening, mListeningCtx without a socket
AgentIdle ==
    /\ mListeningEnabled = FALSE
    /\ mListeningFd = kCtxClosedFd
    /\ listeners = {}
    /\ backlog = <<>>
    /\ acceptCalls = 0

\* a DNS host that never asks for listening and peers that never connect in
NoListening ==
    /\ listenCalls = <<>>
    /\ incomingLeft = 0

\* the publisher and the controller after construction, built with backend b
PubIdle(b) ==
    /\ backend = b
    /\ mState = "kIdle"
    /\ mClient = FALSE
    /\ mHostsRef = FALSE
    /\ mServiceRegistrations = EmptyMap
    /\ mHostRegistrations = EmptyMap
    /\ cbLog = <<>>
    /\ registerCalls = 0
    /\ crashed = FALSE
    /\ mServiceInstanceName = <<>>
    /\ mSubscriberId = 0
    /\ mSubscribedServices = <<>>
    /\ mDiscoveredCallbacks = {}
    /\ browseResults = <<>>
    /\ dnssdName = <<>>

InitDso ==
    /\ DsoIdle
    /\ AgentIdle
    /\ NoListening
    /\ framesLeft = MaxFrames
    /\ connectsLeft = MaxConnects
    /\ faultsLeft = MaxFaults
    /\ sendsLeft = 0
    /\ PubIdle("mdnssd")
    /\ callsMade = 0

NextDso ==
    \/ \E h \in Handles, o \in {"ok", "connect_failed", "nonblock_failed", "socket_failed"} :
          otPlatDsoConnect(h, o)
    \/ \E h \in Handles, mode \in {"forcibly_abort", "gracefully_close"} : otPlatDsoDisconnect(h, mode)
    \/ ProcessBegin
    \/ ProcessStep
    \/ \E f \in SockFds, m \in PeerMessages : PeerSendFrame(f, m)
    \/ \E f \in SockFds, m \in PeerMessages, k \in 1..(MaxMsgLen + 1) : PeerCloseMidFrame(f, m, k)
    \/ \E f \in SockFds : PeerClose(f)
    \/ \E f \in SockFds : PeerReset(f)

\* the receive side: connect, disconnect, the process loop and the peers
SpecDso == InitDso /\ [][NextDso]_vars

InitDsoTx ==
    /\ DsoIdle
    /\ AgentIdle
    /\ NoListening
    /\ framesLeft = 0
    /\ connectsLeft = MaxConnects
    /\ faultsLeft = MaxFaults
    /\ sendsLeft = MaxSends
    /\ PubIdle("mdnssd")
    /\ callsMade = 0

NextDsoTx ==
    \/ \E h \in Handles, o \in {"ok", "connect_failed", "nonblock_failed", "socket_failed"} :
          otPlatDsoConnect(h, o)
    \/ \E h \in Handles, mode \in {"forcibly_abort", "gracefully_close"} : otPlatDsoDisconnect(h, mode)
    \/ \E h \in Handles, m \in HostMessages : otPlatDsoSend(h, m)
    \/ ProcessBegin
    \/ ProcessStep
    \/ \E f \in SockFds : PeerClose(f)
    \/ \E f \in SockFds : PeerReset(f)

\* the send side: the peers write no frames, the DNS host sends
SpecDsoTx == InitDsoTx /\ [][NextDsoTx]_vars

InitDsoHost ==
    /\ DsoIdle
    /\ AgentIdle
    /\ NoListening
    /\ framesLeft = 0
    /\ connectsLeft = MaxConnects
    /\ faultsLeft = MaxFaults
    /\ sendsLeft = 0
    /\ PubIdle("mdnssd")
    /\ callsMade = 0

NextDsoHost ==
    \/ \E h \in Handles, o \in {"ok", "connect_failed", "nonblock_failed", "socket_failed"} :
          otPlatDsoConnect(h, o)
    \/ \E h \in Handles, mode \in {"forcibly_abort", "gracefully_close"} : otPlatDsoDisconnect(h, mode)
    \/ ProcessBegin
    \/ ProcessStep
    \/ \E f \in SockFds : PeerClose(f)
    \/ \E f \in SockFds : PeerReset(f)

\* the connection life cycle alone: connect, disconnect, the process loop and
\* peers that close or reset, with no payload in either direction
SpecDsoHost == InitDsoHost /\ [][NextDsoHost]_vars

InitDsoListen ==
    /\ DsoIdle
    /\ AgentIdle
    /\ listenCalls = <<>>
    /\ incomingLeft = MaxIncoming
    /\ framesLeft = 0
    /\ connectsLeft = 0
    /\ faultsLeft = MaxFaults
    /\ sendsLeft = 0
    /\ PubIdle("mdnssd")
    /\ callsMade = 0

NextDsoListen ==
    \/ \E aEnabled \in BOOLEAN, o \in {"ok", "setup_failed", "socket_failed"} :
          otPlatDsoEnableListening(aEnabled, o)
    \/ \E kind \in PeerKinds : PeerConnectIn(kind)
    \/ \E o \in AcceptOutcomes, h \in {0} \cup Handles : ProcessIncomingConnections(o, h)
    \/ \E h \in Handles, mode \in {"forcibly_abort", "gracefully_close"} : otPlatDsoDisconnect(h, mode)

\* listening alone: the DNS host enables and disables it, peers connect in,
\* the accept loop runs and the DNS host disconnects
SpecDsoListen == InitDsoListen /\ [][NextDsoListen]_vars

InitDsoAgent ==
    /\ DsoIdle
    /\ AgentIdle
    /\ listenCalls = <<>>
    /\ incomingLeft = MaxIncoming
    /\ framesLeft = 0
    /\ connectsLeft = MaxConnects
    /\ faultsLeft = MaxFaults
    /\ sendsLeft = 0
    /\ PubIdle("mdnssd")
    /\ callsMade = 0

NextDsoAgent ==
    \/ \E aEnabled \in BOOLEAN, o \in {"ok", "setup_failed", "socket_failed"} :
          otPlatDsoEnableListening(aEnabled, o)
    \/ \E kind \in PeerKinds : PeerConnectIn(kind)
    \/ \E o \in AcceptOutcomes, h \in {0} \cup Handles : ProcessIncomingConnections(o, h)
    \/ \E h \in Handles, o \in {"ok", "connect_failed", "nonblock_failed", "socket_failed"} :
          otPlatDsoConnect(h, o)
    \/ \E h \in Handles, mode \in {"forcibly_abort", "gracefully_close"} : otPlatDsoDisconnect(h, mode)
    \/ ProcessBegin
    \/ ProcessStep

\* the whole agent without payload: listening and the accept loop next to
\* outgoing connections and the process loop
SpecDsoAgent == InitDsoAgent /\ [][NextDsoAgent]_vars

InitDsoReentrant ==
    /\ DsoIdle
    /\ AgentIdle
    /\ NoListening
    /\ framesLeft = MaxFrames
    /\ connectsLeft = MaxConnects
    /\ faultsLeft = 0
    /\ sendsLeft = 0
    /\ PubIdle("mdnssd")
    /\ callsMade = 0

NextDsoReentrant ==
    \/ \E h \in Handles : otPlatDsoConnect(h, "ok")
    \/ \E f \in SockFds, m \in PeerMessages : PeerSendFrame(f, m)
    \/ ProcessBegin
    \/ ProcessStep
    \/ \E v \in Handles, mode \in {"forcibly_abort", "gracefully_close"}, uaf \in UseAfterFreeOutcomes :
          ProcessStepDisconnecting(v, mode, uaf)
    \/ \E uaf \in UseAfterFreeOutcomes : ProcessStepDestroyed(uaf)

\* the process loop with a DNS host that disconnects from inside its receive upcall
SpecDsoReentrant == InitDsoReentrant /\ [][NextDsoReentrant]_vars

\* the results mDNSResponder reports for a registration
DnsResults == {"kDNSServiceErr_NoError", "kDNSServiceErr_NameConflict", "kDNSServiceErr_Unknown"}

\* the states the avahi daemon reports for an entry group
GroupStates ==
    {"AVAHI_ENTRY_GROUP_UNCOMMITED", "AVAHI_ENTRY_GROUP_REGISTERING", "AVAHI_ENTRY_GROUP_ESTABLISHED",
     "AVAHI_ENTRY_GROUP_COLLISION", "AVAHI_ENTRY_GROUP_FAILURE"}

\* the states the avahi daemon reports for the client
ClientStates ==
    {"AVAHI_CLIENT_S_RUNNING", "AVAHI_CLIENT_FAILURE", "AVAHI_CLIENT_S_COLLISION",
     "AVAHI_CLIENT_S_REGISTERING", "AVAHI_CLIENT_CONNECTING"}

\* the names a backend event can carry
EventNames == UNION {BackendNames(n) : n \in {<<>>, ServiceS}}

\* the keys a registration can be stored under
ServiceKeys == {MakeFullServiceName(n, t) : n \in {<<>>, ServiceS}, t \in {kServiceType, kAppType}}
HostKeys == {MakeFullHostName(HostH)}

InitPub ==
    /\ DsoIdle
    /\ AgentIdle
    /\ NoListening
    /\ framesLeft = 0
    /\ connectsLeft = 0
    /\ faultsLeft = 0
    /\ sendsLeft = 0
    /\ \E b \in {"mdnssd", "avahi"} : PubIdle(b)
    /\ callsMade = 0

NextPub ==
    \/ Start
    \/ Stop
    \/ \E r \in ServiceRequests, o \in RegisterOutcomes : PublishService(r, o)
    \/ UnpublishService(ServiceS, kAppType)
    \/ \E r \in HostRequests, o \in RegisterOutcomes : PublishHost(r, o)
    \/ UnpublishHost(HostH)
    \/ MdnssdMainloopCrash
    \/ \E key \in ServiceKeys, aAdd \in BOOLEAN, aError \in DnsResults, aName \in EventNames :
          HandleServiceRegisterResult(key, aAdd, aError, aName)
    \/ \E key \in HostKeys, aError \in DnsResults : HandleRegisterHostResult(key, aError)
    \/ \E key \in ServiceKeys \cup HostKeys, services \in BOOLEAN, aState \in GroupStates :
          HandleGroupState(key, services, aState)
    \/ \E aState \in ClientStates : HandleClientState(aState)

\* the publisher of either backend, its consumers and its backend
SpecPub == InitPub /\ [][NextPub]_vars

InitSrpl ==
    /\ DsoIdle
    /\ AgentIdle
    /\ NoListening
    /\ framesLeft = 0
    /\ connectsLeft = 0
    /\ faultsLeft = 0
    /\ sendsLeft = 0
    /\ \E b \in {"mdnssd", "avahi"} : PubIdle(b)
    /\ callsMade = 0

NextSrpl ==
    \/ Start
    \/ Stop
    \/ \E aTxtData \in SrplTxtData, o \in RegisterOutcomes : otPlatSrplRegisterDnssdService(aTxtData, o)
    \/ otPlatSrplUnregisterDnssdService
    \/ \E aEnable \in BOOLEAN : otPlatSrplDnssdBrowse(aEnable)
    \/ \E aType \in DiscoveredTypes, aInstanceInfo \in DiscoveredInstances :
          ServiceInstanceResolved(aType, aInstanceInfo)
    \/ MdnssdMainloopCrash
    \/ \E key \in ServiceKeys, aAdd \in BOOLEAN, aError \in DnsResults, aName \in EventNames :
          HandleServiceRegisterResult(key, aAdd, aError, aName)
    \/ \E key \in ServiceKeys, aState \in GroupStates : HandleGroupState(key, TRUE, aState)
    \/ \E aState \in ClientStates : HandleClientState(aState)

\* the SRPL DNS-SD controller on the publisher of either backend
SpecSrpl == InitSrpl /\ [][NextSrpl]_vars

InitSrplBrowse == InitSrpl

NextSrplBrowse ==
    \/ Start
    \/ Stop
    \/ \E o \in RegisterOutcomes : otPlatSrplRegisterDnssdService(<<>>, o)
    \/ otPlatSrplUnregisterDnssdService
    \/ \E aEnable \in BOOLEAN : otPlatSrplDnssdBrowse(aEnable)
    \/ \E key \in ServiceKeys, aName \in EventNames :
          HandleServiceRegisterResult(key, TRUE, "kDNSServiceErr_NoError", aName)
    \/ \E key \in ServiceKeys : HandleGroupState(key, TRUE, "AVAHI_ENTRY_GROUP_ESTABLISHED")
    \/ HandleClientState("AVAHI_CLIENT_S_RUNNING")

\* the controller starting and stopping its browse while the publisher is
\* started and stopped and registers the controller's service with success
SpecSrplBrowse == InitSrplBrowse /\ [][NextSrplBrowse]_vars

InitSrplResolve == InitSrpl

NextSrplResolve ==
    \/ \E o \in RegisterOutcomes : otPlatSrplRegisterDnssdService(<<>>, o)
    \/ \E aEnable \in BOOLEAN : otPlatSrplDnssdBrowse(aEnable)
    \/ \E aType \in DiscoveredTypes, aInstanceInfo \in DiscoveredInstances :
          ServiceInstanceResolved(aType, aInstanceInfo)
    \/ \E key \in ServiceKeys, aName \in EventNames :
          HandleServiceRegisterResult(key, TRUE, "kDNSServiceErr_NoError", aName)

\* the controller browsing: the publisher resolves instances for it, before
\* and after mDNSResponder has named the controller's own service
SpecSrplResolve == InitSrplResolve /\ [][NextSrplResolve]_vars

InitSrpReplication == InitSrpl

NextSrpReplication ==
    \/ Start
    \/ \E aEnable \in BOOLEAN : otPlatSrplDnssdBrowse(aEnable)
    \/ \E aType \in DiscoveredTypes, aInstanceInfo \in DiscoveredInstances :
          DiscoveredPeerInfo(aType, aInstanceInfo)

\* the platform functions of srp_replication.cpp browsing on the publisher
SpecSrpReplication == InitSrpReplication /\ [][NextSrpReplication]_vars

\* the keys the service of srp_replication.cpp can be stored under
SrplKeys == {MakeFullServiceName(n, kServiceType) : n \in GeneratedNames}

InitSrplPublish == InitSrpl

NextSrplPublish ==
    \/ Start
    \/ \E aTxtList \in {<<>>, <<TxtA>>}, aGenerated \in GeneratedNames, o \in RegisterOutcomes,
          o2 \in RegisterOutcomes : PublishSrplService(aTxtList, aGenerated, o, o2)
    \/ \E key \in SrplKeys, aAdd \in BOOLEAN, aError \in DnsResults,
          aName \in UNION {BackendNames(n) : n \in GeneratedNames} :
          HandleServiceRegisterResult(key, aAdd, aError, aName)
    \/ \E key \in SrplKeys, aState \in GroupStates : HandleGroupState(key, TRUE, aState)
    \/ \E aState \in ClientStates : HandleClientState(aState)
    \/ MdnssdMainloopCrash

\* the platform functions of srp_replication.cpp publishing their service,
\* and the backend answering
SpecSrplPublish == InitSrplPublish /\ [][NextSrplPublish]_vars

InitSubscribe == InitSrpl

\* what the daemon does for the subscriptions
DaemonReplies ==
    \/ \E i \in 1..MaxSrplCalls, aEvent \in BrowseEvents, aName \in DiscoveredNames :
          BrowseReply(i, aEvent, aName)
    \/ \E i \in 1..MaxSrplCalls : ResolveReply(i)
    \/ \E i \in 1..MaxSrplCalls : GetAddrInfoReply(i)

NextSubscribe ==
    \/ Start
    \/ \E aEnable \in BOOLEAN : otPlatSrplDnssdBrowse(aEnable)
    \/ DaemonReplies

\* the browse subscription of the controller and the daemon answering it
SpecSubscribe == InitSubscribe /\ [][NextSubscribe]_vars

\* the daemon answers every request it holds, and reports to a browse it
\* holds every instance on the network
FairSubscribe == SpecSubscribe /\ WF_vars(DaemonReplies)

----------------------------------------------------------------------------
(* Claims on the DSO transport *)

\* the open socket a Connected DsoConnection reads from, if it has one
HasSocket(h) ==
    /\ mMap[h].present /\ mMap[h].mConnected
    /\ mMap[h].fd \in SockFds /\ socks[mMap[h].fd].open

\* every frame the peer wrote into f carries a message of 1..65535 bytes
AllValid(f) == \A i \in 1..Len(peerSent[f]) : Len(peerSent[f][i]) >= 1 /\ Len(peerSent[f][i]) <= 65535

\* exactly one connect has been made: the connection is the first use of its DsoConnection
FirstConnection == connectsLeft = MaxConnects - 1

\* bytes wait in the socket, and every HandleReceive from now on reads with length 0
PinnedFull(h) ==
    /\ HasSocket(h)
    /\ ~socks[mMap[h].fd].rst
    /\ socks[mMap[h].fd].rx # <<>>
    /\ RecvSpace(mMap[h]) = 0

\* C1: on one Connection the messages handed to on_receive are, in order and
\* byte for byte, the messages the peer framed, for every split of the stream
\* into reads; and a message whose bytes have arrived is not left undelivered:
\* the connection never reaches a state from which no later HandleReceive can
\* take a byte from the socket.
C1_FramedInOrderNoLoss ==
    \A h \in Handles :
        (FirstConnection /\ HasSocket(h) /\ AllValid(mMap[h].fd))
            => /\ IsPrefix(hostLog[h].received, peerSent[mMap[h].fd])
               /\ ~PinnedFull(h)

\* the Head of the snapshot is handled by this step
Processed(h) == procQueue # <<>> /\ Head(procQueue) = h /\ procQueue' = Tail(procQueue)

\* this step runs HandleReceive on the Connected DsoConnection of h and its
\* mbedtls_net_recv returns a result of the given kind
Received(h, kind) ==
    /\ Processed(h)
    /\ mMap[h].mConnected
    /\ \A r \in RecvResults(mMap[h], socks) : r.kind = kind

\* the DsoConnection stopped at a zero length prefix: Disconnect was called
\* from HandleReceive and left the prefix at mBufferBegin
ZeroAborted(c) ==
    /\ c.present /\ ~c.mConnected
    /\ c.mPendingMessage.null /\ BufAvail(c) >= 2 /\ WireLength(c) = 0

\* the DsoConnection of h is Closed: not Connected and its socket is closed
IsClosed(map, sk, h, oldFd) ==
    /\ map[h].present => ~map[h].mConnected
    /\ oldFd \in SockFds => ~sk[oldFd].open

\* C6: when the length prefix parsed on a Connected connection is zero, the
\* connection is forcibly aborted, the DNS host gets a disconnected upcall for
\* the handle, and no on_receive is delivered on the connection afterwards.
C6_ZeroLengthAbort ==
    [][\A h \in Handles :
          /\ (Processed(h) /\ mMap[h].mConnected /\ ZeroAborted(mMap'[h]))
                => /\ IsClosed(mMap', socks', h, mMap[h].fd)
                   /\ hostLog'[h].disconnected = hostLog[h].disconnected + 1
          /\ (mMap[h].present /\ ZeroAborted(mMap[h]) /\ mMap'[h].present)
                => hostLog'[h].received = hostLog[h].received]_dsoVars

\* a length prefix or a message body is only partially received
PartialFrame(c) == ~c.mPendingMessage.null \/ BufAvail(c) = 1

\* C7: a read that returns 0 at end of stream while a prefix or a body is
\* partially received delivers no on_receive and closes the Connection.
C7_EofClosesConnection ==
    [][\A h \in Handles :
          (FirstConnection /\ Received(h, "eof") /\ PartialFrame(mMap[h]))
              => /\ hostLog'[h].received = hostLog[h].received
                 /\ IsClosed(mMap', socks', h, mMap[h].fd)]_dsoVars

\* C8: a socket error other than would-block makes the Connection Closed and
\* the DNS host gets on_disconnected (the failure is not host-initiated); a
\* would-block result leaves the connection as it was.
C8_SocketErrorCloses ==
    [][\A h \in Handles :
          /\ (FirstConnection /\ Received(h, "error"))
                => /\ IsClosed(mMap', socks', h, mMap[h].fd)
                   /\ hostLog'[h].disconnected = hostLog[h].disconnected + 1
          /\ Received(h, "wantread") => mMap'[h] = mMap[h]]_dsoVars

\* C9: a disconnect made by the DNS host (otPlatDsoDisconnect removes the
\* DsoConnection from the map) never makes the on_disconnected upcall, in
\* either mode and whatever the state of the connection.
C9_HostDisconnectSilent ==
    [][\A h \in Handles :
          (mMap[h].present /\ ~mMap'[h].present)
              => hostLog'[h].disconnected = hostLog[h].disconnected]_dsoVars

\* C9 witness: a handle that was connected has been disconnected by the host
C9_Witness == \E h \in Handles : ~mMap[h].present /\ hostLog[h].connected > 0

----------------------------------------------------------------------------
(* Claims on the publisher *)

\* the entries the closures of callback c put into the log when c runs with error e
Fanout(c, e) == [i \in 1..Len(c) |-> LogEntry(c[i], e)]

\* the outcomes a callback can be told
OtbrErrors ==
    {"OTBR_ERROR_NONE", "OTBR_ERROR_ABORTED", "OTBR_ERROR_DUPLICATED", "OTBR_ERROR_INVALID_ARGS",
     "OTBR_ERROR_INVALID_STATE", "OTBR_ERROR_MDNS", "OTBR_ERROR_NOT_FOUND",
     "OTBR_ERROR_NOT_IMPLEMENTED"}

\* two lists hold the same elements, each as often, in any order
SameElements(s, t) ==
    /\ Len(s) = Len(t)
    /\ \A i \in 1..Len(s) : Cardinality({j \in 1..Len(s) : s[j] = s[i]}) =
                            Cardinality({j \in 1..Len(t) : t[j] = s[i]})

\* registration reg was made from the parameters of request r
SameService(reg, r) ==
    /\ reg.mHostName = r.aHostName /\ reg.mName = r.aName /\ reg.mType = r.aType
    /\ reg.mPort = r.aPort
    /\ SameElements(reg.mSubTypeList, r.aSubTypeList)
    /\ SameElements(reg.mTxtList, r.aTxtList)
SameHost(reg, r) == reg.mName = r.aName /\ reg.mAddress = r.aAddress

\* the publisher takes publish calls: the avahi build refuses them unless it is Ready
TakesCalls == backend = "avahi" => (mState = "kReady" /\ mClient)

\* a registration is stored under the key
Registered(map, key) == key \in DOMAIN map /\ ~map[key].null

\* publish_service(r) gets as far as the comparison with the registration
\* stored under its key: the publisher takes calls and the host r names is published
ServiceCompared(r) ==
    /\ TakesCalls
    /\ r.aHostName # <<>> => Registered(mHostRegistrations, MakeFullHostName(r.aHostName))
    /\ Registered(mServiceRegistrations, MakeFullServiceName(r.aName, r.aType))

\* publish_host(r) with outcome o gets as far as the comparison: the publisher
\* takes calls, the address has 16 bytes and the connection to mDNSResponder is there
HostCompared(r, o) ==
    /\ TakesCalls
    /\ Len(r.aAddress) = OTBR_IP6_ADDRESS_SIZE
    /\ backend = "mdnssd" => (mHostsRef \/ o.connectError = "kDNSServiceErr_NoError")
    /\ Registered(mHostRegistrations, MakeFullHostName(r.aName))

\* the backend refuses the register request of a call with outcome o, and the error the call reports then
Refused(o) ==
    IF backend = "mdnssd" THEN o.dnsError # "kDNSServiceErr_NoError"
    ELSE ~o.group \/ o.avahiError # 0
RefusedError(o) == IF backend = "mdnssd" THEN DNSErrorToOtbrError(o.dnsError) ELSE "OTBR_ERROR_MDNS"

\* the backend can encode the TXT list of r
TxtEncodable(r) ==
    IF backend = "mdnssd" THEN EncodeTxtData(r.aTxtList) = "OTBR_ERROR_NONE"
    ELSE TxtListToAvahiStringList(r.aTxtList) = "OTBR_ERROR_NONE"

\* the callback the call being made supplies
NewClosure(kind) == [id |-> NextId, kind |-> kind]

\* In this step every pending registration of the map either stays pending
\* with its callbacks, in order, at the front of its chain, or all its
\* callbacks run one after the other in that order with one and the same error.
ChainsKept(map, mapAfter) ==
    \A key \in DOMAIN map :
        (~map[key].null /\ map[key].mCallback # <<>>) =>
            LET c == map[key].mCallback
            IN  \/ /\ Registered(mapAfter, key)
                   /\ Len(mapAfter[key].mCallback) >= Len(c)
                   /\ SubSeq(mapAfter[key].mCallback, 1, Len(c)) = c
                \/ \E e \in OtbrErrors, n \in Len(cbLog)..Len(cbLog') :
                      /\ n + Len(c) <= Len(cbLog')
                      /\ SubSeq(cbLog', n + 1, n + Len(c)) = Fanout(c, e)

Issued == 1..callsMade
\* how often the callback of call id has run, and how many registrations still hold it
Invocations(id) == Cardinality({i \in 1..Len(cbLog) : cbLog[i].id = id})
HeldIn(map, id) ==
    Cardinality({<<k, i>> \in UNION {{<<key, j>> : j \in 1..Len(map[key].mCallback)} :
                                        key \in {x \in DOMAIN map : ~map[x].null}} :
                    map[k].mCallback[i].id = id})
\* every callback supplied so far either has run once or is held once by a registration
ExactlyOnceOrPending ==
    \A id \in Issued :
        Invocations(id) + HeldIn(mServiceRegistrations, id) + HeldIn(mHostRegistrations, id) = 1

\* the publisher after stop() is called now, for every order of destruction
AfterStop ==
    {IF backend = "mdnssd" THEN MdnssdStop(Pub, so, ho) ELSE AvahiStop(Pub, so, ho) :
        so \in DestroyOrders(mServiceRegistrations), ho \in DestroyOrders(mHostRegistrations)}

\* C3: the callback of every publish and unpublish call runs exactly once:
\* at every moment it has run once or is still held by one registration,
\* never twice, and when stop() is called every callback supplied before has
\* run once it returns.
C3_CallbackExactlyOnce ==
    /\ ExactlyOnceOrPending
    /\ ~crashed =>
          \A p \in AfterStop, id \in Issued :
              Cardinality({i \in 1..Len(p.cbLog) : p.cbLog[i].id = id}) = 1

C5_CompletedDuplicateSucceeds ==
    [][/\ \A r \in ServiceRequests, o \in RegisterOutcomes :
             LET key == MakeFullServiceName(r.aName, r.aType)
             IN  (/\ PublishService(r, o)
                  /\ ServiceCompared(r)
                  /\ SameService(mServiceRegistrations[key], r)
                  /\ mServiceRegistrations[key].mCallback = <<>>)
                 => /\ cbLog' = Append(cbLog, LogEntry(NewClosure("PublishService"), "OTBR_ERROR_NONE"))
                    /\ registerCalls' = registerCalls
                    /\ mServiceRegistrations' = mServiceRegistrations
                    /\ mHostRegistrations' = mHostRegistrations
       /\ \A r \in HostRequests, o \in RegisterOutcomes :
             LET key == MakeFullHostName(r.aName)
             IN  (/\ PublishHost(r, o)
                  /\ HostCompared(r, o)
                  /\ SameHost(mHostRegistrations[key], r)
                  /\ mHostRegistrations[key].mCallback = <<>>)
                 => /\ cbLog' = Append(cbLog, LogEntry(NewClosure("PublishHost"), "OTBR_ERROR_NONE"))
                    /\ registerCalls' = registerCalls
                    /\ mServiceRegistrations' = mServiceRegistrations
                    /\ mHostRegistrations' = mHostRegistrations]_vars

\* the first publish_service was resolved after its call, the callback of
\* the second ran inside the second call with no error, and the backend saw
\* one register request in all
C5_Witness ==
    /\ registerCalls = 1
    /\ Registered(mServiceRegistrations, MakeFullServiceName(ServiceS, kAppType))
    /\ cbLog = <<[id |-> 1, kind |-> "PublishService", error |-> "OTBR_ERROR_NONE", inCall |-> FALSE],
                 [id |-> 2, kind |-> "PublishService", error |-> "OTBR_ERROR_NONE", inCall |-> TRUE]>>

----------------------------------------------------------------------------
(* Claims on the SRPL DNS-SD controller *)

\* the controller's register_service has been resolved with success and the
\* service is still registered, under the name dnssdName the backend chose
SrplRegistered ==
    /\ dnssdName # <<>>
    /\ ~FindServiceRegistrationByType(mServiceRegistrations, kServiceType).null
    /\ \E i \in 1..Len(cbLog) : /\ cbLog[i].kind = "srpl_register"
                                /\ cbLog[i].error = "OTBR_ERROR_NONE"

\* C10: once register_service has been resolved with the name the backend
\* chose, a discovery event of the SRPL type whose instance name equals that
\* name without regard to case is not handed to the SRP Replication engine,
\* and an event of the SRPL type with another name (a removal, or an
\* instance with an address) is handed to it.
C10_OwnInstanceNotDelivered ==
    [][\A aType \in DiscoveredTypes, aInstanceInfo \in DiscoveredInstances :
          (/\ ServiceInstanceResolved(aType, aInstanceInfo)
           /\ SrplRegistered
           /\ EqualCaseInsensitive(aType, kServiceType))
          => IF EqualCaseInsensitive(aInstanceInfo.mName, dnssdName)
             THEN browseResults' = browseResults
             ELSE (aInstanceInfo.mRemoved \/ aInstanceInfo.mAddresses # <<>>)
                  => /\ Len(browseResults') = Len(browseResults) + 1
                     /\ browseResults'[Len(browseResults')].instance = aInstanceInfo.mName]_vars

\* C11: when mDNSResponder answers a pending publish_service with success
\* under a name other than the one asked for (it renamed the instance after
\* a conflict), the callbacks of the registration run with no error and the
\* completed registration found afterwards for the service type carries the
\* name the backend chose.
C11_RenamedNameFound ==
    [][\A key \in ServiceKeys, aName \in EventNames :
          (/\ HandleServiceRegisterResult(key, TRUE, "kDNSServiceErr_NoError", aName)
           /\ mServiceRegistrations[key].mCallback # <<>>
           /\ aName # mServiceRegistrations[key].mName)
          => /\ cbLog' = cbLog \o Fanout(mServiceRegistrations[key].mCallback, "OTBR_ERROR_NONE")
             /\ LET found == FindServiceRegistrationByType(mServiceRegistrations',
                                                           mServiceRegistrations[key].mType)
                IN  ~found.null /\ found.mName = aName]_vars

----------------------------------------------------------------------------
(* Claims on the DSO transport: connect, send, listening *)

\* the DsoConnection of handle h is missing or not Connected
IsIdle(h) == ~mMap[h].present \/ ~mMap[h].mConnected

\* the DsoConnection c holds a descriptor that is open
HoldsOpenFd(c, sk) == c.present /\ c.fd \in SockFds /\ sk[c.fd].open

\* C12: connect on an Idle connection either succeeds, and then the
\* connection is Connected, holds an open fd and the DNS host has got exactly
\* one more on_connected upcall, or it fails, and then the connection is not
\* Connected, holds no open fd and the DNS host has got no upcall.
C12_ConnectOutcome ==
    [][\A h \in Handles, o \in {"ok", "connect_failed", "nonblock_failed", "socket_failed"} :
          (otPlatDsoConnect(h, o) /\ IsIdle(h))
          => IF o = "ok"
             THEN /\ mMap'[h].present /\ mMap'[h].mConnected
                  /\ HoldsOpenFd(mMap'[h], socks')
                  /\ hostLog'[h].connected = hostLog[h].connected + 1
             ELSE /\ ~(mMap'[h].present /\ mMap'[h].mConnected)
                  /\ ~HoldsOpenFd(mMap'[h], socks')
                  /\ hostLog' = hostLog]_vars

\* the DsoConnection of handle h is Connected on an open socket the peer has not reset
ConnectedOpen(h) ==
    /\ mMap[h].present /\ mMap[h].mConnected
    /\ mMap[h].fd \in SockFds /\ socks[mMap[h].fd].open /\ ~socks[mMap[h].fd].rst

\* C13: send(m) on a Connected connection hands the socket the frame of m,
\* Len(m) + 2 bytes: the big-endian length of m and then every byte of m; what
\* the socket takes of it is appended to the stream.
C13_SendFramesWholeMessage ==
    [][\A h \in Handles, m \in HostMessages :
          (otPlatDsoSend(h, m) /\ ConnectedOpen(h))
          => /\ SendBuffer(m) = Frame(m)
             /\ \E k \in 0..Len(SendBuffer(m)) :
                   socks'[mMap[h].fd].tx = socks[mMap[h].fd].tx \o SubSeq(SendBuffer(m), 1, k)]_vars

\* C14: after send(m) on a Connected connection either all the bytes handed
\* to the socket are in the stream, or the connection is no longer Connected
\* (a transport fault was reported): it never stays Connected with only a
\* part of them written.
C14_SendWholeOrFault ==
    [][\A h \in Handles, m \in HostMessages :
          (otPlatDsoSend(h, m) /\ ConnectedOpen(h))
          => \/ socks'[mMap[h].fd].tx = socks[mMap[h].fd].tx \o SendBuffer(m)
             \/ ~(mMap'[h].present /\ mMap'[h].mConnected)]_vars

\* the process loop has just called HandleReceive on the head of the snapshot
HandleReceiveRan == procQueue # <<>> /\ procQueue' = Tail(procQueue)

\* C15: whatever the DNS host disconnects from inside an upcall of the process
\* step, the DsoConnection that HandleReceive is called on exists when the call
\* is made and still exists when it returns (HandleReceive writes the
\* connection's fields after every upcall), and so does every DsoConnection
\* the loop has yet to call.
C15_NoUseOfDestroyedConnection ==
    [][HandleReceiveRan
       => /\ mMap[Head(procQueue)].present
          /\ mMap'[Head(procQueue)].present
          /\ \A i \in 1..Len(procQueue') : mMap'[procQueue'[i]].present]_vars

----------------------------------------------------------------------------
(* Claims on the DSO transport: listening and the accept loop *)

\* no DsoConnection is left in the map
MapEmpty(map) == \A h \in Handles : ~map[h].present

\* C16: after enable_listening(false), whatever the state it is called in, the
\* map holds no Connection, no listening socket is open and listening is off.
C16_DisableLeavesNothing ==
    [][otPlatDsoEnableListening(FALSE, "ok")
       => /\ MapEmpty(mMap')
          /\ listeners' = {}
          /\ ~mListeningEnabled']_vars

\* C17: enable_listening(true) while listening is enabled changes nothing of
\* the agent, the sockets or the DNS host's view, and there is never more than
\* one listening socket.
C17_EnableIdempotent ==
    [][/\ \A o \in {"ok", "setup_failed", "socket_failed"} :
             (otPlatDsoEnableListening(TRUE, o) /\ mListeningEnabled)
             => UNCHANGED <<mMap, socks, hostLog, peerSent, mListeningEnabled, mListeningFd, listeners,
                            backlog, acceptCalls, crashed>>
       /\ Cardinality(listeners') <= 1]_vars

\* enable_listening(true) was called twice in a row and the agent listens
C17_Witness ==
    /\ ~crashed
    /\ mListeningEnabled
    /\ mListeningFd \in listeners
    /\ ~MapEmpty(mMap)
    /\ \E i \in 1..(Len(listenCalls) - 1) : listenCalls[i] /\ listenCalls[i + 1]

\* C18: an accepted connection whose peer is not an IPv6 peer (its address is
\* an IPv4 or an IPv4-mapped one) has its descriptor closed, makes no
\* Connection and causes no otPlatDsoAccept and no otPlatDsoHandleConnected
\* upcall.
C18_NonIp6PeerDropped ==
    [][\A o \in AcceptOutcomes, h \in {0} \cup Handles :
          (ProcessIncomingConnections(o, h) /\ Head(backlog) # "ip6")
          => /\ ~socks'[LowestFreeFd(socks)].open
             /\ mMap' = mMap
             /\ acceptCalls' = acceptCalls
             /\ hostLog' = hostLog]_vars

\* C19: an accepted descriptor that no Connection of the map holds after the
\* iteration (set-nonblock failed, or otPlatDsoAccept returned null) is closed.
C19_UnusedAcceptedFdClosed ==
    [][\A o \in AcceptOutcomes, h \in {0} \cup Handles :
          (/\ ProcessIncomingConnections(o, h)
           /\ \A k \in Handles : ~HoldsOpenFd(mMap'[k], socks') \/ mMap'[k].fd # LowestFreeFd(socks))
          => ~socks'[LowestFreeFd(socks)].open]_vars

\* C20: disconnect(h, mode) for a handle the map does not hold, in either
\* mode, leaves the map, every socket, the listening state and the DNS host's
\* record of upcalls as they were.
C20_UnknownDisconnectNoOp ==
    [][\A h \in Handles, mode \in {"forcibly_abort", "gracefully_close"} :
          (otPlatDsoDisconnect(h, mode) /\ ~mMap[h].present)
          => UNCHANGED <<mMap, socks, hostLog, acceptCalls, mListeningEnabled, mListeningFd, listeners,
                         backlog, crashed>>]_vars

\* a disconnect has named an unknown handle while the agent listens and holds
\* a Connection under another handle
C20_Witness ==
    /\ missedDisconnect
    /\ mListeningEnabled
    /\ ~MapEmpty(mMap)
    /\ \E h \in Handles : ~mMap[h].present

----------------------------------------------------------------------------
(* Claims on the DSO transport: zero length, connect on a Connected handle *)

\* this step runs HandleReceive on the Connected DsoConnection of h, and
\* whatever its read returns, the length prefix it parses is zero
ParsesZero(h) ==
    /\ Processed(h)
    /\ mMap[h].present /\ mMap[h].mConnected
    /\ mMap[h].fd \in SockFds
    /\ \A r \in RecvResults(mMap[h], socks) :
          HandleReceive(mMap[h], r, socks[mMap[h].fd].rx).zero

\* C21: after a zero-length frame is received on a Connection, its socket is
\* closed and the map holds no entry for its handle.
C21_ZeroLengthDropsEntry ==
    [][\A h \in Handles :
          ParsesZero(h) => /\ ~socks'[mMap[h].fd].open
                           /\ ~mMap'[h].present]_vars

\* C25: connect on a handle whose Connection is Connected is refused: the
\* Connection with its descriptor and receive state, every socket and the DNS
\* host's record of upcalls stay as they are.
C25_ConnectWhileConnectedRefused ==
    [][\A h \in Handles, o \in {"ok", "connect_failed", "nonblock_failed", "socket_failed"} :
          (otPlatDsoConnect(h, o) /\ mMap[h].present /\ mMap[h].mConnected)
          => /\ mMap'[h] = mMap[h]
             /\ socks' = socks
             /\ hostLog' = hostLog]_vars

----------------------------------------------------------------------------
(* Claims on the publisher: destruction, unpublish, preconditions *)

\* the closures the registrations of a map still hold
HeldClosures(map) ==
    UNION {{map[key].mCallback[j] : j \in 1..Len(map[key].mCallback)} :
              key \in {x \in DOMAIN map : ~map[x].null}}

\* the publisher after the avahi client reports a collision or that the
\* server is registering again, for every order of destruction
AfterClientSignal ==
    IF backend = "avahi" /\ mClient
    THEN {AvahiHandleClientState(aState, Pub, so, ho) :
             aState \in {"AVAHI_CLIENT_S_COLLISION", "AVAHI_CLIENT_S_REGISTERING"},
             so \in DestroyOrders(mServiceRegistrations), ho \in DestroyOrders(mHostRegistrations)}
    ELSE {}

\* p is the publisher with every registration destroyed: both maps are empty,
\* each closure that was held has run once more with OTBR_ERROR_ABORTED, and
\* nothing else has run
AllAborted(p) ==
    LET held == HeldClosures(mServiceRegistrations) \cup HeldClosures(mHostRegistrations)
        new == SubSeq(p.cbLog, Len(cbLog) + 1, Len(p.cbLog))
    IN  /\ p.mServiceRegistrations = EmptyMap
        /\ p.mHostRegistrations = EmptyMap
        /\ Len(p.cbLog) >= Len(cbLog) /\ SubSeq(p.cbLog, 1, Len(cbLog)) = cbLog
        /\ Len(new) = Cardinality(held)
        /\ \A c \in held : \E i \in 1..Len(new) : new[i].id = c.id /\ new[i].kind = c.kind
        /\ \A i \in 1..Len(new) : new[i].error = "OTBR_ERROR_ABORTED"

\* C22: when stop() is called, or the backend client signals a collision or
\* that the server registers again, both registration maps become empty, the
\* callback of every registration that was pending runs exactly once with
\* aborted, and no callback of a completed registration runs.
C22_DestroyedPendingAborted ==
    ~crashed => \A p \in AfterStop \cup AfterClientSignal : AllAborted(p)

\* the callback a registration of the map holds under key, <<>> if there is none
PendingCallback(map, key) ==
    IF key \in DOMAIN map /\ ~map[key].null THEN map[key].mCallback ELSE <<>>

\* what the unpublish call that is made now adds to the log: aborted for what
\* the registration under key still held, then success for its own callback
UnpublishLog(map, key, kind) ==
    Fanout(PendingCallback(map, key), "OTBR_ERROR_ABORTED") \o Fanout(AppCallback(kind), "OTBR_ERROR_NONE")

\* C23: unpublish_service and unpublish_host leave the map without a
\* registration under the key and run the callback of the call once, with
\* success, whether the key was absent, pending or completed; the callbacks
\* of a pending registration are run with aborted before that.
C23_UnpublishRemovesAndSucceeds ==
    [][/\ UnpublishService(ServiceS, kAppType)
          => LET key == MakeFullServiceName(ServiceS, kAppType)
             IN  /\ key \notin LiveKeys(mServiceRegistrations')
                 /\ cbLog' = cbLog \o UnpublishLog(mServiceRegistrations, key, "UnpublishService")
       /\ UnpublishHost(HostH)
          => LET key == MakeFullHostName(HostH)
             IN  /\ key \notin LiveKeys(mHostRegistrations')
                 /\ cbLog' = cbLog \o UnpublishLog(mHostRegistrations, key, "UnpublishHost")]_vars

\* a pending publish_service was aborted by the unpublish_service that followed
C23_Witness ==
    \E i \in 1..(Len(cbLog) - 1) :
        /\ cbLog[i].kind = "PublishService" /\ cbLog[i].error = "OTBR_ERROR_ABORTED"
        /\ cbLog[i + 1].kind = "UnpublishService" /\ cbLog[i + 1].error = "OTBR_ERROR_NONE"
        /\ cbLog[i + 1].inCall
        /\ MakeFullServiceName(ServiceS, kAppType) \notin LiveKeys(mServiceRegistrations)

\* the call that is made now is refused with aError: its callback runs once
\* with aError inside the call, no request goes to the backend and the
\* registration maps are left as they are
RefusedWith(kind, aError) ==
    /\ cbLog' = cbLog \o Fanout(AppCallback(kind), aError)
    /\ registerCalls' = registerCalls
    /\ mServiceRegistrations' = mServiceRegistrations
    /\ mHostRegistrations' = mHostRegistrations

\* C24: publish_service and publish_host on a publisher that is not Ready are
\* refused with invalid_state, in both backends.
C24_PublishNotReadyRefused ==
    [][/\ \A r \in ServiceRequests, o \in RegisterOutcomes :
             (PublishService(r, o) /\ mState # "kReady")
             => RefusedWith("PublishService", "OTBR_ERROR_INVALID_STATE")
       /\ \A r \in HostRequests, o \in RegisterOutcomes :
             (PublishHost(r, o) /\ mState # "kReady")
             => RefusedWith("PublishHost", "OTBR_ERROR_INVALID_STATE")]_vars

\* the publisher is Ready: started, and for avahi holding a client
PublisherReady == mState = "kReady" /\ (backend = "avahi" => mClient)

\* C26: publish_host on a Ready publisher with an address that is not 16
\* bytes long is refused with invalid_args, in both backends.
C26_BadAddressInvalidArgs ==
    [][\A r \in HostRequests, o \in RegisterOutcomes :
          (PublishHost(r, o) /\ PublisherReady /\ Len(r.aAddress) # OTBR_IP6_ADDRESS_SIZE)
          => RefusedWith("PublishHost", "OTBR_ERROR_INVALID_ARGS")]_vars

----------------------------------------------------------------------------
(* Claims on the SRPL DNS-SD controller: browsing *)

\* what the publisher holds for its subscribers
Subscriptions == <<mSubscribedServices, mDiscoveredCallbacks>>

\* one callback registration, the controller's, and one subscription, the
\* browse of the SRPL service type
OneSubscription ==
    /\ mSubscriberId # 0
    /\ mDiscoveredCallbacks = {mSubscriberId}
    /\ Len(mSubscribedServices) = 1
    /\ mSubscribedServices[1].mType = kServiceType
    /\ mSubscribedServices[1].mInstanceName = <<>>

NoSubscription ==
    /\ mSubscriberId = 0
    /\ mDiscoveredCallbacks = {}
    /\ mSubscribedServices = <<>>

\* C27: a start_browse leaves exactly one callback registration and one
\* subscription of the SRPL service type in the publisher and a stop_browse
\* leaves none; a start_browse while browsing and a stop_browse while not
\* browsing change neither the controller nor what the publisher holds, and
\* no other step of the controller or the publisher touches the subscription.
C27_BrowseIdempotent ==
    [][\/ \E aEnable \in BOOLEAN :
             /\ otPlatSrplDnssdBrowse(aEnable)
             /\ IF aEnable THEN OneSubscription' ELSE NoSubscription'
             /\ (IF aEnable THEN OneSubscription ELSE NoSubscription)
                => /\ UNCHANGED <<mSubscriberId, Subscriptions>>
                   /\ UNCHANGED <<mState, mClient, mHostsRef, mServiceRegistrations,
                                  mHostRegistrations, cbLog, registerCalls, crashed>>
       \/ UNCHANGED <<mSubscriberId, Subscriptions>>]_vars

\* start_browse three times in a row: the id of the first call is still the
\* controller's and there is one subscription
C27_Witness ==
    /\ callsMade = MaxSrplCalls
    /\ mSubscriberId = 1
    /\ cbLog = <<>> /\ registerCalls = 0
    /\ OneSubscription

\* the event is not of the controller's own instance, neither by the name the
\* backend advertises it under nor by the name the controller holds for it
NotSelf(aInstanceInfo) ==
    /\ ~EqualCaseInsensitive(aInstanceInfo.mName, dnssdName)
    /\ ~EqualCaseInsensitive(aInstanceInfo.mName, mServiceInstanceName)

\* the engine is handed what the spec lays down for the event when `after` is
\* what it has been handed once the instance callback has run
PeerInfoDelivered(aInstanceInfo, after) ==
    LET last == after[Len(after)]
        oneMore == /\ Len(after) = Len(browseResults) + 1
                   /\ SubSeq(after, 1, Len(browseResults)) = browseResults
    IN  IF aInstanceInfo.mRemoved
        THEN /\ oneMore
             /\ last.mRemoved
             /\ last.instance = aInstanceInfo.mName
        ELSE IF aInstanceInfo.mAddresses = <<>> THEN after = browseResults
        ELSE /\ oneMore
             /\ ~last.mRemoved
             /\ last.mSockAddr = [mAddress |-> aInstanceInfo.mAddresses[1],
                                  mPort |-> aInstanceInfo.mPort]
             /\ last.mTxtData = aInstanceInfo.mTxtData
             /\ last.mTxtLength = Len(aInstanceInfo.mTxtData)

\* the instance callback of SrplDnssd does so
SrplDnssdDelivers ==
    (mSubscriberId # 0) =>
    \A aType \in DiscoveredTypes, aInstanceInfo \in DiscoveredInstances :
       LET after == OnServiceInstanceResolved(aType, aInstanceInfo, browseResults)
       IN  IF ~EqualCaseInsensitive(aType, kServiceType) THEN after = browseResults
           ELSE NotSelf(aInstanceInfo) => PeerInfoDelivered(aInstanceInfo, after)

\* the instance callback of srp_replication.cpp does so
SrpReplicationDelivers ==
    (mSubscriberId # 0) =>
    \A aType \in DiscoveredTypes, aInstanceInfo \in DiscoveredInstances :
       LET after == HandleDiscoveredPeerInfo(aType, aInstanceInfo, browseResults)
       IN  IF ~EqualCaseInsensitive(aType, kServiceType) THEN after = browseResults
           ELSE (aInstanceInfo.mName # sSrplServiceInstanceName)
                => PeerInfoDelivered(aInstanceInfo, after)

\* C28: while the controller browses, of a resolved instance of the SRPL
\* service type that is not the controller's own, a removal is handed to the
\* SRP Replication engine as a record with the removed flag whatever its
\* addresses are; an instance without an address is not handed over; an
\* instance with addresses is handed over with its first address, its port,
\* its TXT data and their length. An instance of another service type is
\* never handed over. Both instance callbacks of the repository do so.
C28_PeerInfoDelivered == SrplDnssdDelivers /\ SrpReplicationDelivers

----------------------------------------------------------------------------
(* Claims on the publisher: browse subscriptions *)

\* the browse subscriptions the publisher holds
BrowseSubscriptions ==
    {i \in 1..Len(mSubscribedServices) : mSubscribedServices[i].mInstanceName = <<>>}

\* the browse of a subscription has reported the instance; the instance has
\* been handed to the subscription callbacks
Reported(aName) == \E i \in BrowseSubscriptions : aName \in mSubscribedServices[i].reported
Delivered(aName) == \E i \in BrowseSubscriptions : aName \in mSubscribedServices[i].delivered

\* every browse subscription in the list still browses
KeepsBrowsing ==
    \A i \in BrowseSubscriptions : mSubscribedServices[i].mServiceRef = "browse"

\* an instance the browse has reported is handed to the callbacks in the end,
\* unless the subscription is given up or the process ends first
HitsDelivered ==
    \A aName \in DiscoveredNames :
       Reported(aName) ~> (Delivered(aName) \/ BrowseSubscriptions = {} \/ crashed)

\* C29: a browse subscription resolves every instance its browse reports and
\* hands it to the subscription callbacks in the end, and it goes on browsing
\* until UnsubscribeService is called.
C29_BrowseResolvesEveryHit == HitsDelivered /\ [](~crashed => KeepsBrowsing)

----------------------------------------------------------------------------
(* Order of the subtype list and of the TXT list of publish_service        *)

\* what the backend gives its daemon as the TXT record of aTxtList: the bytes
\* of EncodeTxtData (mdnssd) or the string list of TxtListToAvahiStringList (avahi)
TxtDataOf(aTxtList) ==
    IF backend = "mdnssd" THEN EncodedTxtData(aTxtList) ELSE AvahiStringList(aTxtList)

\* publish_service(r) is compared with a registration that was made from the
\* parameters of r, the two lists in any order
ComparedWithSame(r) ==
    /\ ServiceCompared(r)
    /\ SameService(mServiceRegistrations[MakeFullServiceName(r.aName, r.aType)], r)

\* A publish_service call whose parameters are those of the registration
\* under its key, its subtype list and its TXT list in any order, is not
\* treated as outdated: nothing is sent to the backend and the registration
\* stays as it is, but for the callback the call may add to a pending one.
PermutationNotOutdated ==
    [][\A r \in ServiceRequests, o \in RegisterOutcomes :
          LET key == MakeFullServiceName(r.aName, r.aType)
          IN  (PublishService(r, o) /\ ComparedWithSame(r))
              => /\ registerCalls' = registerCalls
                 /\ DOMAIN mServiceRegistrations' = DOMAIN mServiceRegistrations
                 /\ mServiceRegistrations'[key] =
                        [mServiceRegistrations[key] EXCEPT !.mCallback = mServiceRegistrations'[key].mCallback]
                 /\ mServiceRegistrations[key].mCallback = <<>>
                        => cbLog' = Append(cbLog, LogEntry(NewClosure("PublishService"), "OTBR_ERROR_NONE"))]_vars

\* The TXT record the daemon holds for a registration is the encoding of the
\* sorted TXT list, which is the list the registration keeps in mTxtList.
SortedTxtHanded ==
    \A key \in DOMAIN mServiceRegistrations :
        LET reg == mServiceRegistrations[key]
        IN  ~reg.null => /\ reg.mTxtList = SortTxtList(reg.mTxtList)
                         /\ reg.mTxtData = TxtDataOf(reg.mTxtList)

\* C30: duplicate detection does not depend on the order of the subtype list
\* and of the TXT list: a publish_service call whose lists are permutations of
\* those of the registration under its key, all else equal, is coalesced or
\* answered at once and never treated as outdated; and the TXT data handed to
\* the backend is the encoding of the sorted TXT list.
C30_OrderInsensitive == PermutationNotOutdated /\ []SortedTxtHanded

----------------------------------------------------------------------------
(* Claims on the DSO transport: listener setup, receive buffer, send and    *)
(* the receive state of a new connection                                    *)

\* the outcomes of Enable in which socket, setsockopt, bind or listen fails
SetupFailures == {"setup_failed", "socket_failed"}

\* C31: when the listener setup fails in enable_listening(true), the process
\* keeps running, the listener stays disabled with no listening descriptor
\* open, and a later enable_listening(true) sets up the listener again.
C31_SetupFailureKeepsRunning ==
    [][\A o \in SetupFailures :
          (otPlatDsoEnableListening(TRUE, o) /\ ~mListeningEnabled)
          => /\ ~crashed'
             /\ ~mListeningEnabled'
             /\ listeners' = {}
             /\ socks' = socks
             /\ EnableOpens(mListeningEnabled')]_vars

\* (a) of C32: no pending inbound message, and at most one byte of a length
\* prefix is buffered
AwaitingPrefix(c) ==
    /\ c.mPendingMessage.null
    /\ c.mWantMessageSize = 0
    /\ BufAvail(c) \in {0, 1}

\* (b) of C32: a pending inbound message of a declared length that is not
\* zero, nothing buffered, and fewer bytes in the message than declared; the
\* remaining bytes are the declared length less the bytes in the message
FillingMessage(c) ==
    /\ ~c.mPendingMessage.null
    /\ c.mWantMessageSize > 0
    /\ BufAvail(c) = 0
    /\ Len(c.mPendingMessage.data) < c.mWantMessageSize

\* C32: between two handle_receive calls a Connected connection either
\* awaits a length prefix with at most one byte of it buffered and no pending
\* message, or fills a pending message of known non-zero length with nothing
\* buffered and fewer bytes in it than declared.
C32_ReceiveStateInvariant ==
    \A h \in Handles :
        (mMap[h].present /\ mMap[h].mConnected)
        => (AwaitingPrefix(mMap[h]) \/ FillingMessage(mMap[h]))

\* the indices of the receive buffer of c are in order and within the buffer
BufferIndicesInRange(c) ==
    /\ 0 <= c.mBufferBegin
    /\ c.mBufferBegin <= c.mBufferEnd
    /\ c.mBufferEnd <= kBufferSize

\* C33: in every state of a Connection 0 <= mBufferBegin <= mBufferEnd <= the
\* size of the receive buffer, and the read handle_receive issues on a
\* Connected connection is given free space greater than zero: a byte of a
\* length prefix left at the end of the buffer never keeps the buffer full.
C33_ReadHasFreeSpace ==
    \A h \in Handles :
        mMap[h].present
        => /\ BufferIndicesInRange(mMap[h])
           /\ mMap[h].mConnected => RecvSpace(mMap[h]) > 0

\* the Connection of handle h is Connected
Connected(h) == mMap[h].present /\ mMap[h].mConnected

\* C34: send(h, m) on a handle whose Connection is not Connected (there is
\* none, its connect failed, or it was aborted) writes no byte to any
\* descriptor.
C34_SendNotConnectedWritesNothing ==
    [][\A h \in Handles, m \in HostMessages :
          (otPlatDsoSend(h, m) /\ ~Connected(h)) => socks' = socks]_vars

\* the receive state of c is that of a new DsoConnection
ReceiveStateEmpty(c) ==
    /\ c.mBufferBegin = 0
    /\ c.mBufferEnd = 0
    /\ c.mPendingMessage.null
    /\ c.mWantMessageSize = 0

\* C35: whenever a Connection becomes Connected, by connect or by accept, its
\* receive state is empty: mBufferBegin = mBufferEnd = 0, no pending message
\* and mWantMessageSize = 0.
C35_ConnectedStartsEmpty ==
    [][\A h \in Handles :
          (~Connected(h) /\ mMap'[h].present /\ mMap'[h].mConnected)
          => ReceiveStateEmpty(mMap'[h])]_vars

----------------------------------------------------------------------------
(* Claims on the publisher: the registration maps, re-entrant callbacks,    *)
(* group events and the life cycle                                          *)

\* C36: every key of the service map and of the host map maps to a live
\* registration: a lookup of a key that has none inserts no entry, and a
\* publish that fails after the lookup leaves no entry for its key.
C36_NoNullMapEntries ==
    /\ \A key \in DOMAIN mServiceRegistrations : ~mServiceRegistrations[key].null
    /\ \A key \in DOMAIN mHostRegistrations : ~mHostRegistrations[key].null

\* the registration under key is pending with the lambda of PublishSrplService
\* as its callback, and that lambda, told of a name conflict, publishes under
\* the same key again, the backend taking the register request
RepublishesSameKey(key) ==
    /\ Registered(mServiceRegistrations, key)
    /\ Len(mServiceRegistrations[key].mCallback) = 1
    /\ LET c == mServiceRegistrations[key].mCallback[1]
       IN  /\ c.kind = "PublishSrplService"
           /\ MakeFullServiceName(c.republish.aName, c.republish.aType) = key
           /\ ~Refused(c.o)

\* the entries the step adds to the callback log
NewLogEntries == SubSeq(cbLog', Len(cbLog) + 1, Len(cbLog'))

\* after the step the registration under key is the one its callback
\* published: it is pending with that callback and was not aborted
RepublishedPending(key) ==
    /\ Registered(mServiceRegistrations', key)
    /\ ~IsCompleted(mServiceRegistrations'[key])
    /\ \A i \in 1..Len(NewLogEntries) : NewLogEntries[i].error # "OTBR_ERROR_ABORTED"

\* C37: when the backend reports a failure for the registration under a key
\* and the callback of that registration, while it runs, publishes a new
\* registration under the same key, the new registration is in the map and
\* pending after the handler has returned: the handler's removal does not
\* remove it and does not abort it.
C37_ReentrantPublishKept ==
    [][\A key \in SrplKeys :
          /\ \A aAdd \in BOOLEAN, aName \in UNION {BackendNames(n) : n \in GeneratedNames} :
                (/\ HandleServiceRegisterResult(key, aAdd, "kDNSServiceErr_NameConflict", aName)
                 /\ RepublishesSameKey(key))
                => RepublishedPending(key)
          /\ (/\ HandleGroupState(key, TRUE, "AVAHI_ENTRY_GROUP_COLLISION")
              /\ RepublishesSameKey(key))
             => RepublishedPending(key)]_vars

\* the registration map HandleGroupState looks the entry group up in
GroupMap(services) == IF services THEN mServiceRegistrations ELSE mHostRegistrations

\* the entry group of the registration at key has completed: its callback is consumed
GroupCompleted(key, services) ==
    /\ key \in LiveKeys(GroupMap(services))
    /\ IsCompleted(GroupMap(services)[key])

\* the registration at key is out of its map after the step
GroupRemoved(key, services) ==
    key \notin LiveKeys(IF services THEN mServiceRegistrations' ELSE mHostRegistrations')

\* C38: in the avahi backend an entry-group event that arrives after the
\* registration completed invokes no callback (the consumed callback is not
\* called: the process keeps running and nothing is logged), and a COLLISION
\* or FAILURE after completion still removes the registration from its map
C38_GroupEventAfterCompletion ==
    [][\A key \in ServiceKeys \cup HostKeys, services \in BOOLEAN, aState \in GroupStates :
          (HandleGroupState(key, services, aState) /\ GroupCompleted(key, services))
          => /\ ~crashed'
             /\ cbLog' = cbLog
             /\ aState \in {"AVAHI_ENTRY_GROUP_COLLISION", "AVAHI_ENTRY_GROUP_FAILURE"}
                   => GroupRemoved(key, services)]_vars


\* PublisherMDnsSd::IsStarted and PublisherAvahi::IsStarted
IsStarted(p) == IF backend = "mdnssd" THEN p.mState = "kReady" ELSE p.mClient

\* the publisher after the step
PubAfter == [Pub EXCEPT !.mState = mState', !.mClient = mClient']

\* C39: after stop() on a started publisher, is_started() returns false and
\* both registration maps are empty, in both backends
C39_StopEndsStarted ==
    [][(Stop /\ IsStarted(Pub))
       => /\ ~IsStarted(PubAfter)
          /\ mServiceRegistrations' = EmptyMap
          /\ mHostRegistrations' = EmptyMap]_vars


(* Claims on the TXT length of the SRPL service registration *)

\* the publisher register_service leaves when it decodes all Len(aTxtData) bytes
WholeInputRegistered(aTxtData, o) ==
    SrplRegisterService(aTxtData, Len(aTxtData), <<[id |-> NextId, kind |-> "srpl_register"]>>, o, Pub)

\* C40: register_service decodes exactly the txt_length bytes passed to
\* otPlatSrplRegisterDnssdService, the length is not reduced modulo 256: the
\* registrations it leaves are those of the decoding of the whole input
C40_WholeTxtDecoded ==
    [][\A aTxtData \in SrplTxtData, o \in RegisterOutcomes :
          otPlatSrplRegisterDnssdService(aTxtData, o)
          => mServiceRegistrations' = WholeInputRegistered(aTxtData, o).mServiceRegistrations]_vars

====
